---------------------------- MODULE Spec2Model ----------------------------
(***************************************************************************)
(* Model of muriloat/resource_manager: the Flask server that shells out to *)
(* systemctl / journalctl (src/server/resource_manager_server.py), its log *)
(* paginator (src/server/fixed_pagination.py), the HTTP client             *)
(* (src/resource_manager/client/resource_manager_client.py) and the        *)
(* terminal dashboard's manager (src/resource_manager/shell).              *)
(*                                                                         *)
(* Several state machines share the module:                                *)
(*   SpecPag  - the log paginator, get_paginated_journal_logs, called on   *)
(*              a journal that grows between calls;                        *)
(*   Spec     - the server's service-scoped routes, the status parser and  *)
(*              the lifecycle waiters (FairSpec adds the fairness the      *)
(*              blocking, synchronous request handler provides);           *)
(*   SpecCfg, SpecInfo - the unit-file and the property parsers;           *)
(*   SpecClient - the public calls of ResourceManagerClient;               *)
(*   SpecDash, SpecCycle - the dashboard's ShellServiceManager, refreshed  *)
(*              by the terminal's main thread and by its background worker *)
(*              (FairDash adds fair scheduling of the threads);            *)
(*   SpecStmt - the dashboard with each load cut statement by statement;   *)
(*   SpecTerm - the Terminal: its managers, host switches and main loop;   *)
(*   SpecToggle - a toggle of the dashboard served by the server's routes; *)
(*   SpecApp  - the UI application's host operations.                      *)
(* External commands are the environment: every output and exit code is a  *)
(* nondeterministic choice from a small set.                               *)
(***************************************************************************)
EXTENDS Integers, Sequences, FiniteSets, TLC

VARIABLES
    \* ---- log paginator (fixed_pagination.py) ----
    journal,      \* the unit's journal: a sequence of lines, oldest first
    pag_pc,       \* "idle" | "done"
    pag_call,     \* the arguments and command outcomes of the last call
    pag_result,   \* what get_paginated_journal_logs returned (or raised)
    \* ---- server (resource_manager_server.py) ----
    services_config, \* services_config.py: name -> {start_string, timeouts}
    pc,           \* position of the request handler
    req,          \* the request being served: [route, name]
    cmds,         \* commands executed while serving it: set of [cmd, unit]
    pre_status,   \* get_service_status result taken before the command
    status_probe, \* what the commands of that first status check printed
    is_active_stdout, \* output of the final is-active probe
    now,          \* time.time(), in ticks, since the request arrived
    wait,         \* the running waiter's frame
    started,      \* return value of the waiter (started / restarted / stopped)
    is_active,    \* the final independent is-active probe
    resp,         \* the response: [code, body]
    \* ---- unit-file and property parsers (resource_manager_server.py) ----
    unit_text,    \* stdout of `systemctl cat`: its lines
    show_text,    \* stdout of `systemctl show`: its lines
    unit_pc,      \* "edit" | "parsed"
    unit_result,  \* what the parser returned (or that it raised)
    \* ---- client (resource_manager_client.py) ----
    client_call,  \* the last public client call: [call, net, out]
    \* ---- dashboard (shell/service_manager.py, shell/terminal.py) ----
    reach,        \* all_servers[h].is_reachable, per configured host
    self_reach,   \* the manager's own is_reachable: "unset" | "False"
    all_services, \* all_services: host -> what list_services returned
    all_statuses, \* all_statuses: <<host, service>> -> status entry
    active,       \* the manager's own services / statuses / metadata
    should_refresh, \* the polling loop's flag
    refresh_thread, \* "None" | "thread"
    w_pc,         \* position of _refresh_worker
    since,        \* now - last_refresh as the worker reads it, in seconds
    m_pc,         \* position of the terminal's main thread
    join_wait,    \* seconds the main thread has waited in join
    stop_cycles,  \* refreshes the worker ended after the flag was cleared
    load,         \* per thread: the frame of its load_all_data call
    \* ---- terminal (shell/terminal.py, shell/config.py) ----
    term,         \* the Terminal: its managers, active host, main loop
    \* ---- UI application (client/ui/app.py, client/config.py) ----
    app           \* ResourceManagerApp: configured hosts, current host

pagVars == <<journal, pag_pc, pag_call, pag_result>>
srvVars == <<services_config, pc, req, cmds, pre_status, status_probe,
            is_active_stdout, now, wait, started, is_active, resp>>
unitVars == <<unit_text, show_text, unit_pc, unit_result>>
clientVars == <<client_call>>
dashVars == <<reach, self_reach, all_services, all_statuses, active,
             should_refresh, refresh_thread, w_pc, since, m_pc, join_wait,
             stop_cycles, load>>
\* The variables added beside the paginator and the server.
uiVars == <<term, app>>
extVars == <<unitVars, clientVars, dashVars, uiVars>>
vars == <<pagVars, srvVars, extVars>>

Max(a, b) == IF a >= b THEN a ELSE b
Min(a, b) == IF a <= b THEN a ELSE b

None == "None"

(***************************************************************************)
(* Python dict helpers: a dict is a function from keys to values.          *)
(***************************************************************************)
Get(d, k, default) == IF k \in DOMAIN d THEN d[k] ELSE default

-----------------------------------------------------------------------------
(***************************************************************************)
(*                    LOG PAGINATOR  (fixed_pagination.py)                 *)
(***************************************************************************)

\* Bounds of the paginator model.
MaxLines == 3      \* lines in the journal
MaxPage == 3       \* largest page argument
MaxPerPage == 2    \* largest per_page argument

(* A journal line is [seq, kind].  seq is the line's place in the journal  *)
(* (its cursor); kind is its shape:                                        *)
(*   "full"  "<mon> <day> <time> <host> <proc>: <msg>"                     *)
(*   "alt"   "<mon> <day> <time> <msg>"                                    *)
(*   "other" any other non-blank entry text                                *)
(*   "blank" whitespace only (a blank line of a multi-line message)        *)
(*   "info"  an informational line of journalctl ("-- No entries --",      *)
(*           "-- Boot <id> --"), printed only without --quiet              *)
LineKinds == {"full", "alt", "other", "blank", "info"}

\* journalctl -u <svc> --since <since> --no-pager --quiet : line 14
QuietStream(j) == SelectSeq(j, LAMBDA l : l.kind # "info")

\* sudo journalctl -u <svc> --since <since> --no-pager : line 62
FullStream(j) == j

\* math.ceil(a / b) for a >= 0, b >= 1
CeilDiv(a, b) == IF a % b = 0 THEN a \div b ELSE (a \div b) + 1

\* Outcomes of a subprocess.run call.
Outcomes == {"ok", "nonzero", "raise"}

\* count_total_journal_entries: wc -l of the quiet stream; 0 on a non-zero
\* exit and 0 on any exception.
count_total_journal_entries(j, outcome) ==
    CASE outcome = "ok"      -> Len(QuietStream(j))
      [] outcome = "nonzero" -> 0
      [] outcome = "raise"   -> 0

\* Variant without the floor of one page.
TotalPagesNoFloor(total_logs, per_page) == CeilDiv(total_logs, per_page)

\* total_pages = ceil(total_logs / per_page) if total_logs > 0 else 1

TotalPages(total_logs, per_page) ==
    IF total_logs > 0 THEN CeilDiv(total_logs, per_page) ELSE 1

\* tail -n +<start_line> | head -n <per_page>
TailHead(stream, start_line, per_page) ==
    SubSeq(stream, start_line, Min(start_line + per_page - 1, Len(stream)))

\* The two regular expressions of lines 83 and 94: which fields an entry gets.
ParseLine(l) ==
    CASE l.kind = "full" -> [raw |-> l, fields |-> {"timestamp", "hostname", "process", "message"}]
      [] l.kind = "alt"  -> [raw |-> l, fields |-> {"timestamp", "message"}]
      [] OTHER           -> [raw |-> l, fields |-> {}]

\* for line in stdout.splitlines(): skip blank lines, parse the others.
RECURSIVE ParseLines(_)
ParseLines(ls) ==
    IF ls = <<>> THEN <<>>
    ELSE IF Head(ls).kind = "blank" THEN ParseLines(Tail(ls))
    ELSE <<ParseLine(Head(ls))>> \o ParseLines(Tail(ls))

\* Variant in which the exception leaves the function.
ErrorResultPropagates(page, per_page) == [raised |-> TRUE]

\* The except branch, lines 126-140.

ErrorResult(page, per_page) ==
    [raised |-> FALSE,
     logs |-> <<>>,
     log_count |-> 0,
     error |-> "str(e)",
     pagination |-> [page |-> page, per_page |-> per_page, total_logs |-> 0,
                     total_pages |-> 1, has_prev |-> FALSE, has_next |-> FALSE]]

\* The pagination dict of lines 107-114.
PaginationInfo(page, per_page, total_logs, total_pages) ==
    [page |-> page, per_page |-> per_page, total_logs |-> total_logs,
     total_pages |-> total_pages,
     has_prev |-> page > 1,
     has_next |-> page < total_pages]

\* get_paginated_journal_logs(service_name, page, per_page, since), lines 42-140.
\* countOut, sliceOut: outcomes of the two subprocess.run calls;
\* stderr: what the slice pipeline wrote to stderr ("" or a text).
get_paginated_journal_logs(j, page_arg, per_page_arg, countOut, sliceOut, stderr) ==
    LET total_logs == count_total_journal_entries(j, countOut)
        page == Max(1, page_arg)
        per_page == Max(1, per_page_arg)
        total_pages == TotalPages(total_logs, per_page)
        start_line == (page - 1) * per_page + 1
        log_entries == IF sliceOut = "ok"
                       THEN ParseLines(TailHead(FullStream(j), start_line, per_page))
                       ELSE <<>>
    IN  IF sliceOut = "raise"
        THEN ErrorResult(page, per_page)
        ELSE [raised |-> FALSE,
              logs |-> log_entries,
              log_count |-> Len(log_entries),
              pagination |-> PaginationInfo(page, per_page, total_logs, total_pages),
              exit_code |-> IF sliceOut = "ok" THEN 0 ELSE 1,
              error |-> IF stderr # "" THEN stderr ELSE None]

NoCall == [page |-> 0, per_page |-> 0, countOut |-> "ok", sliceOut |-> "ok", stderr |-> ""]
NoResult == [raised |-> FALSE]

PagInit ==
    /\ journal = <<>>
    /\ pag_pc = "idle"
    /\ pag_call = NoCall
    /\ pag_result = NoResult

\* The service logs a line (or journalctl has an informational line to show).
JournalAppend ==
    /\ pag_pc = "idle"
    /\ Len(journal) < MaxLines
    /\ \E k \in LineKinds :
          journal' = Append(journal, [seq |-> Len(journal) + 1, kind |-> k])
    /\ UNCHANGED <<pag_pc, pag_call, pag_result>>
    /\ UNCHANGED <<srvVars, extVars>>

\* One call of get_paginated_journal_logs on the current journal.
PagCall ==
    /\ pag_pc = "idle"
    /\ \E p \in 0..MaxPage, k \in 0..MaxPerPage,
          co \in Outcomes, so \in Outcomes, se \in {"", "stderr text"} :
          /\ pag_call' = [page |-> p, per_page |-> k, countOut |-> co,
                          sliceOut |-> so, stderr |-> se]
          /\ pag_result' = get_paginated_journal_logs(journal, p, k, co, so, se)
    /\ pag_pc' = "done"
    /\ UNCHANGED journal
    /\ UNCHANGED <<srvVars, extVars>>

\* The caller has consumed the result.
PagReturn ==
    /\ pag_pc = "done"
    /\ pag_pc' = "idle"
    /\ pag_call' = NoCall
    /\ pag_result' = NoResult
    /\ UNCHANGED journal
    /\ UNCHANGED <<srvVars, extVars>>

-----------------------------------------------------------------------------
(***************************************************************************)
(*                 TEXT: command output as character sequences             *)
(***************************************************************************)

\* Command output is a sequence of one-character strings, so that strip(),
\* lower() and the substring test "x in s" are computed, not assumed.
Whitespace == {" ", "\n", "\t"}

RECURSIVE LStrip(_)
LStrip(s) == IF s # <<>> /\ Head(s) \in Whitespace THEN LStrip(Tail(s)) ELSE s

RECURSIVE RStrip(_)
RStrip(s) ==
    IF s # <<>> /\ s[Len(s)] \in Whitespace THEN RStrip(SubSeq(s, 1, Len(s) - 1)) ELSE s

\* str.strip()
Strip(s) == RStrip(LStrip(s))

\* str.lower(), for the upper-case letters the modelled outputs contain
LowerChar(c) ==
    CASE c = "L" -> "l"
      [] c = "S" -> "s"
      [] c = "R" -> "r"
      [] c = "E" -> "e"
      [] c = "VM" -> "vm"
      [] c = "Owner" -> "owner"
      [] OTHER  -> c

Lower(s) == [i \in 1..Len(s) |-> LowerChar(s[i])]

\* s[a..b], empty when the range leaves the text
Sub(s, a, b) == IF a >= 1 /\ b <= Len(s) /\ a <= b THEN SubSeq(s, a, b) ELSE <<>>

\* sub in s
Contains(s, sub) ==
    \E i \in 1..(Len(s) - Len(sub) + 1) : SubSeq(s, i, i + Len(sub) - 1) = sub

NL == <<"\n">>
SP == <<" ">>
Empty == <<>>

c_active == <<"a", "c", "t", "i", "v", "e">>
c_inactive == <<"i", "n", "a", "c", "t", "i", "v", "e">>
c_activating == <<"a", "c", "t", "i", "v", "a", "t", "i", "n", "g">>
c_failed == <<"f", "a", "i", "l", "e", "d">>
c_enabled == <<"e", "n", "a", "b", "l", "e", "d">>
c_disabled == <<"d", "i", "s", "a", "b", "l", "e", "d">>
c_static == <<"s", "t", "a", "t", "i", "c">>
c_indirect == <<"i", "n", "d", "i", "r", "e", "c", "t">>
c_not_found == <<"n", "o", "t", "-", "f", "o", "u", "n", "d">>
c_loaded == <<"l", "o", "a", "d", "e", "d">>
c_LoadState == <<"L", "o", "a", "d", "S", "t", "a", "t", "e", "=">>
c_running == <<"r", "u", "n", "n", "i", "n", "g">>
c_dead == <<"d", "e", "a", "d">>

\* What `systemctl is-active <unit>` can print ("" when run_command caught
\* an exception).
IsActiveOutputs == {c_active \o NL, c_inactive \o NL, c_activating \o NL, Empty}

\* What `systemctl show <unit> --property=LoadState` can print.
LoadStateOutputs ==
    {c_LoadState \o c_loaded \o NL, c_LoadState \o c_not_found \o NL, Empty}

\* What `systemctl is-enabled <unit>` can print.
IsEnabledOutputs ==
    {c_enabled \o NL, c_disabled \o NL, c_static \o NL, c_indirect \o NL, Empty}

-----------------------------------------------------------------------------
(***************************************************************************)
(*            STATUS PARSER  (get_service_status, lines 30-109)            *)
(***************************************************************************)

c_since == <<"s", "i", "n", "c", "e">>
c_ago == <<"a", "g", "o">>

\* Opaque pieces of text: one element stands for a run of characters that
\* holds none of the characters the regular expressions look for.
TS == <<"Mon", " ", "2024-01-01", " ", "10:00:00", " ", "UTC">>
DUR == <<"2h", " ", "15min">>
UnitPath == <<"/etc/systemd/system/x.service">>
Preset == <<"preset:", " ">> \o c_enabled

\* Values of the Active: line.
A_running ==
    c_active \o SP \o <<"(">> \o c_running \o <<")">> \o SP \o c_since \o SP
        \o TS \o <<";">> \o SP \o DUR \o SP \o c_ago
A_dead == c_inactive \o SP \o <<"(">> \o c_dead \o <<")">>
A_activating == c_activating \o SP \o <<"(", "start", ")">>

\* Values of the Loaded: line.
LoadedLine(boot) ==
    c_loaded \o SP \o <<"(">> \o UnitPath \o <<";">> \o SP \o boot \o <<";">>
        \o SP \o Preset \o <<")">>
L_masked == <<"masked", " ", "(", "Reason:", " ", "Unit", ")">>

\* "This line is not in the text" / "this number is not in the line".
NoLine == <<"<no such line>">>
NoNum == 0 - 1
NoTasks == [current |-> NoNum, limit |-> NoNum]
NoMemory == [current |-> NoLine, peak |-> NoLine]

\* The text `systemctl status <unit>` printed: the value of each line the
\* parser looks for, NoLine when the text has no such line.
StatusText(a, l, pid, tasks, mem, cpu) ==
    [Active |-> a, Loaded |-> l, MainPID |-> pid, Tasks |-> tasks,
     Memory |-> mem, CPU |-> cpu]

StatusTexts ==
    { StatusText(A_running, LoadedLine(c_enabled), 1234,
                 [current |-> 2, limit |-> 100],
                 [current |-> <<"5.0M", " ">>, peak |-> <<"6.1M">>],
                 <<"1.2s">>),
      StatusText(A_running, LoadedLine(c_indirect), 77,
                 [current |-> 1, limit |-> NoNum], [current |-> <<"5.0M">>, peak |-> NoLine],
                 NoLine),
      StatusText(A_running, NoLine, NoNum, NoTasks, NoMemory, NoLine),
      StatusText(A_dead, LoadedLine(c_disabled), NoNum, NoTasks, NoMemory, NoLine),
      StatusText(A_activating, LoadedLine(c_static), 9, NoTasks, NoMemory, NoLine),
      StatusText(NoLine, L_masked, NoNum, NoTasks, NoMemory, NoLine),
      StatusText(NoLine, NoLine, NoNum, NoTasks, NoMemory, NoLine) }

\* Exit codes of `systemctl status`: 0 running, 3 not running, 1 run_command's
\* own failure.
StatusCodes == {0, 1, 3}

\* re.search(r"since (.+?);(.+?)ago", s): the start of the leftmost match, the
\* place of its ";" and of its "ago"; <<>> when nothing matches.
SinceStarts(s) ==
    {i \in 1..Len(s) : Sub(s, i, i + 5) = c_since \o SP}
SemiAfter(s, i) ==
    {j \in (i + 7)..Len(s) :
        /\ s[j] = ";"
        /\ \A x \in (i + 6)..(j - 1) : s[x] # "\n"
        /\ \E k \in (j + 2)..Len(s) :
              /\ Sub(s, k, k + 2) = c_ago
              /\ \A x \in (j + 1)..(k - 1) : s[x] # "\n"}
AgoAfter(s, j) ==
    {k \in (j + 2)..Len(s) : Sub(s, k, k + 2) = c_ago}
SetMin(S) == CHOOSE x \in S : \A y \in S : x <= y
\* Variant in which the regular expression never matches.
TimestampMatchNever(s) == <<>>

timestamp_match(s) ==
    LET starts == {i \in SinceStarts(s) : SemiAfter(s, i) # {}}
    IN  IF starts = {} THEN <<>>
        ELSE LET i == SetMin(starts)
                 j == SetMin(SemiAfter(s, i))
                 k == SetMin(AgoAfter(s, j))
             IN  <<Sub(s, i + 6, j - 1), Sub(s, j + 1, k - 1)>>

\* re.search(r";\s*(enabled|disabled|indirect|static)", s): group 1 of the
\* leftmost match, NoLine when nothing matches.
BootWords == <<c_enabled, c_disabled, c_indirect, c_static>>
RECURSIVE SkipSpace(_, _)
SkipSpace(s, i) == IF i <= Len(s) /\ s[i] \in Whitespace THEN SkipSpace(s, i + 1) ELSE i
BootAt(s, i) ==
    LET p == SkipSpace(s, i + 1)
        hits == {w \in 1..Len(BootWords) :
                    Sub(s, p, p + Len(BootWords[w]) - 1) = BootWords[w]}
    IN  IF s[i] = ";" /\ hits # {} THEN BootWords[SetMin(hits)] ELSE NoLine
enabled_match(s) ==
    LET at == {i \in 1..Len(s) : BootAt(s, i) # NoLine}
    IN  IF at = {} THEN NoLine ELSE BootAt(s, SetMin(at))

EmptyDict == [k \in {} |-> None]

\* d[k] = v
Put(d, k, v) == (k :> v) @@ d

\* The details dict, lines 86-107.
StatusDetails(stdout) ==
    LET d1 == IF stdout.MainPID # NoNum
              THEN Put(EmptyDict, "pid", stdout.MainPID) ELSE EmptyDict
        d2 == IF stdout.Tasks.current # NoNum /\ stdout.Tasks.limit # NoNum
              THEN Put(d1, "tasks", stdout.Tasks) ELSE d1
        d3 == IF stdout.Memory.current # NoLine /\ stdout.Memory.peak # NoLine
              THEN Put(d2, "memory", [current |-> Strip(stdout.Memory.current),
                                      peak |-> Strip(stdout.Memory.peak)])
              ELSE d2
        d4 == IF stdout.CPU # NoLine
              THEN Put(d3, "cpu_usage", Strip(stdout.CPU)) ELSE d3
    IN  d4

\* Variant without the LoadState short-circuit.
UnitNotFoundNever(loaded_check) == FALSE

\* if "not-found" in loaded_check.lower(), line 44

UnitNotFound(loaded_check) == Contains(Lower(loaded_check), c_not_found)

\* Variant that still reads the Active line of the text.
MinimalRecordKeepsParsing(parsed_data, stdout) ==
    Put(Put(parsed_data, "active_raw", c_inactive), "running",
        stdout.Active # NoLine /\ Contains(Lower(stdout.Active), c_running))

\* The record returned when `systemctl status` exits non-zero, lines 54-57.
MinimalRecord(parsed_data, stdout) ==
    Put(Put(parsed_data, "running", FALSE), "active_raw", c_inactive)

\* get_service_status(service_name) on the outputs of its three commands:
\* (stdout, code) of `systemctl status`, loaded_check of `systemctl show
\* --property=LoadState`, enabled_check of `systemctl is-enabled`.
get_service_status(service_name, stdout, code, loaded_check, enabled_check) ==
    LET parsed0 == [service |-> service_name, running |-> FALSE,
                    enabled |-> Contains(Lower(enabled_check), c_enabled),
                    boot_status |-> Strip(enabled_check),
                    details |-> EmptyDict]
        \* lines 65-74
        active_status == Strip(stdout.Active)
        ts == timestamp_match(active_status)
        parsed1 == IF stdout.Active = NoLine THEN parsed0
                   ELSE LET a == Put(Put(parsed0, "active_raw", active_status),
                                     "running", Contains(Lower(active_status), c_running))
                        IN  IF ts = <<>> THEN a
                            ELSE Put(Put(a, "started_at", Strip(ts[1])),
                                     "uptime", Strip(ts[2]))
        \* lines 77-84
        loaded_status == Strip(stdout.Loaded)
        boot_status == enabled_match(loaded_status)
        parsed2 == IF stdout.Loaded = NoLine THEN parsed1
                   ELSE LET l == Put(parsed1, "loaded_raw", loaded_status)
                        IN  IF boot_status = NoLine THEN l
                            ELSE Put(Put(l, "enabled", boot_status \in {c_enabled, c_indirect}),
                                     "boot_status", boot_status)
    IN  IF UnitNotFound(loaded_check)
        THEN [error |-> <<"Service not found", service_name>>]
        ELSE IF code # 0
        THEN MinimalRecord(parsed0, stdout)
        ELSE Put(parsed2, "details", StatusDetails(stdout))

\* The commands one get_service_status call runs, all on the same unit.
StatusCommands(service_name, loaded_check) ==
    {[cmd |-> "status", unit |-> service_name],
     [cmd |-> "show", unit |-> service_name]}
    \cup (IF UnitNotFound(loaded_check) THEN {}
          ELSE {[cmd |-> "is-enabled", unit |-> service_name]})

-----------------------------------------------------------------------------
(***************************************************************************)
(*          SERVER: routes and lifecycle waiters                           *)
(***************************************************************************)

\* Bounds of the server model.
TicksPerSec == 2     \* clock resolution: ticks in one second
MaxTimeout == 3      \* largest configured timeout, in ticks
MaxProbeTicks == 1   \* longest time one probe command takes, in ticks

\* .get("start_timeout", 20) / .get("stop_timeout", 20), in seconds
DefaultTimeout == 20

Timeouts == (0 - 1)..MaxTimeout

\* Names a request can carry: the configured services and one that is not.
Configured == {"web", "db"}
Names == Configured \cup {"ghost"}

\* A configured start_string, as text found in the journal.
Marker == "READY"

\* services_config.  Either "web" has a start_string and both services have
\* explicit timeouts, or "web" has an empty start_string and "db" nothing at
\* all, so that the defaults apply.
ServiceConfigs ==
    { ("web" :> [start_string |-> Marker, start_timeout |-> t, stop_timeout |-> t])
        @@ ("db" :> [start_timeout |-> t, stop_timeout |-> t]) : t \in Timeouts }
    \cup {("web" :> [start_string |-> ""]) @@ ("db" :> EmptyDict)}

Routes == {"status", "config", "logs", "start", "stop", "restart", "reload",
           "enable", "disable", "details", "unit_info"}
ControlRoutes == {"start", "stop", "restart", "reload", "enable", "disable"}

\* Variant without the membership test.
KnownServiceAny(service_name) == TRUE

\* if service_name not in services_config: abort(404)

KnownService(service_name) == service_name \in DOMAIN services_config

\* Python truthiness of a configured start_string
Truthy(x) == x \notin {None, ""}

\* The last lines of the unit's journal, as `journalctl -n 50` prints them.
LogTails == {Empty, <<"Starting">>, <<"Starting", Marker>>}

NoReq == [route |-> "none", name |-> "none"]
NoResp == [code |-> 0, body |-> EmptyDict]
NoStatus == EmptyDict
NoProbe == [stdout |-> StatusText(NoLine, NoLine, NoNum, NoTasks, NoMemory, NoLine),
            code |-> 0, loaded_check |-> Empty, enabled_check |-> Empty]
NoWait == [kind |-> "none", desired |-> Empty, marker |-> None, timeout |-> 0,
           start_time |-> 0, probes |-> 0, last |-> NoLine, slow |-> FALSE,
           returned_at |-> NoNum]

Cmd(c, unit) == [cmd |-> c, unit |-> unit]

SrvInit ==
    /\ services_config \in ServiceConfigs
    /\ pc = "idle"
    /\ req = NoReq
    /\ cmds = {}
    /\ pre_status = NoStatus
    /\ status_probe = NoProbe
    /\ is_active_stdout = Empty
    /\ now = 0
    /\ wait = NoWait
    /\ started = FALSE
    /\ is_active = FALSE
    /\ resp = NoResp

\* No command output has been parsed yet.
NoParse == [fn |-> "none"]

UnitInit ==
    /\ unit_text = <<>>
    /\ show_text = <<>>
    /\ unit_pc = "edit"
    /\ unit_result = NoParse

\* ---- the client and the dashboard before anything has run ----
\* A Python value is a record tagged with its type.
JNone == [t |-> "None", v |-> <<>>]
JStr(s) == [t |-> "str", v |-> s]
JBool(b) == [t |-> "bool", v |-> b]
JList(l) == [t |-> "list", v |-> l]
JDict(d) == [t |-> "dict", v |-> d]

\* A call returned v / raised the exception exc.
Ret(v) == [raised |-> FALSE, exc |-> "", value |-> v]
Raise(e) == [raised |-> TRUE, exc |-> e, value |-> JNone]

NoClientCall == [call |-> "none", net |-> "ok", out |-> Ret(JNone)]

ClientInit == client_call = NoClientCall

\* REFRESH_INTERVAL, in seconds (30 by default).
RefreshInterval == 2
\* join(timeout=1), in seconds.
JoinTimeout == 1
\* The count of refreshes that end after the flag was cleared stops here.
MaxStopCycles == 2

Threads == {"worker", "main"}
\* The configured hosts, in the order all_servers holds them.
Hosts == <<"h1", "h2">>
HostSet == {Hosts[i] : i \in 1..Len(Hosts)}

\* The frame of a load_all_data call: where it stands, who called it, the
\* hosts that were marked unreachable when it began, the hosts it has sent
\* a request to, what its last per-host step met, and its return value.
NoStep == [host |-> "none", skipped |-> FALSE, failed |-> FALSE,
           services |-> JNone]
NoLoad == [pos |-> "none", i |-> 0, kind |-> "none", ret |-> "none",
           marked |-> {}, called |-> {}, last |-> NoStep, success |-> FALSE]

NoActive == [services |-> JList(<<>>), running_status |-> JDict(EmptyDict),
             boot_status |-> JDict(EmptyDict), metadata |-> EmptyDict,
             resources |-> EmptyDict]

DashInit ==
    /\ reach = [h \in HostSet |-> TRUE]
    /\ self_reach = "unset"
    /\ all_services = EmptyDict
    /\ all_statuses = EmptyDict
    /\ active = NoActive
    /\ should_refresh = TRUE
    /\ refresh_thread = "None"
    /\ w_pc = "none"
    /\ since = RefreshInterval + 1
    /\ m_pc = "construct"
    /\ join_wait = 0
    /\ stop_cycles = 0
    /\ load = [t \in Threads |-> NoLoad]

\* The hosts of the terminal's configuration file; ensure_default_host puts
\* "default" there before anything else runs.
TermHosts == {"default", "h1", "h2"}

\* managers.get(host_id): no manager yet, or a ShellServiceManager as its
\* constructor leaves it (no is_reachable attribute, no thread,
\* should_refresh = True).
NoManager ==
    [exists |-> FALSE, reach |-> "unset", thread |-> FALSE,
     should_refresh |-> TRUE]
NewManager == [NoManager EXCEPT !.exists = TRUE]

\* The last switch_host call: its argument, its return value, and the active
\* host id and the host of current_manager when it was called.
NoSwitch ==
    [h |-> "none", ret |-> FALSE, active_before |-> "none",
     manager_before |-> "none"]

TermInit ==
    term = [pc |-> "new", active_host |-> "default",
            managers |-> [h \in TermHosts |-> NoManager],
            current_manager |-> "none", last |-> NoSwitch]

\* hoststr, the id of the local default host (the machine's host name).
hoststr == "local"

\* The last host operation of the application: its name, argument and
\* return value, and the configured hosts and current host before it.
NoOp ==
    [op |-> "none", host_id |-> "none", ret |-> FALSE, hosts_before |-> <<>>,
     current_before |-> "none"]

\* ResourceManagerApp.__init__ on a fresh configuration: ClientConfig holds
\* the local default host, and get_default_host_id falls back to it.
AppInit ==
    app = [hosts |-> <<hoststr>>, current_host_id |-> hoststr,
           default_host_id |-> hoststr, last |-> NoOp]

ExtInit == UnitInit /\ ClientInit /\ DashInit /\ TermInit /\ AppInit

Init == PagInit /\ SrvInit /\ ExtInit

\* A request arrives.
Receive ==
    /\ pc = "idle"
    /\ \E r \in Routes, n \in Names : req' = [route |-> r, name |-> n]
    /\ pc' = "route"
    /\ UNCHANGED <<services_config, status_probe, is_active_stdout, cmds, pre_status, now, wait, started, is_active, resp>>
    /\ UNCHANGED <<pagVars, extVars>>

\* abort(code, description=...)  /  return jsonify(body)
Respond(code, body) ==
    /\ resp' = [code |-> code, body |-> body]
    /\ pc' = "responded"

\* Any service-scoped route, unknown name: abort(404).
Abort404 ==
    /\ pc = "route"
    /\ ~KnownService(req.name)
    /\ Respond(404, [description |-> "Service not found"])
    /\ UNCHANGED <<services_config, status_probe, is_active_stdout, req, cmds, pre_status, now, wait, started, is_active>>
    /\ UNCHANGED <<pagVars, extVars>>

\* GET /services/<name>/status, lines 193-199
ServiceStatus ==
    /\ pc = "route" /\ req.route = "status"
    /\ KnownService(req.name)
    /\ \E stdout \in StatusTexts, code \in StatusCodes,
          loaded_check \in LoadStateOutputs, enabled_check \in IsEnabledOutputs :
          /\ cmds' = cmds \cup StatusCommands(req.name, loaded_check)
          /\ status_probe' = [stdout |-> stdout, code |-> code,
                               loaded_check |-> loaded_check,
                               enabled_check |-> enabled_check]
          /\ Respond(200, get_service_status(req.name, stdout, code,
                                             loaded_check, enabled_check))
    /\ UNCHANGED <<services_config, is_active_stdout, req, pre_status, now, wait, started, is_active>>
    /\ UNCHANGED <<pagVars, extVars>>

\* GET /services/<name>/config, lines 203-260 (the unit-file parser's result
\* is the body "UnitConfig")
GetServiceConfig ==
    /\ pc = "route" /\ req.route = "config"
    /\ KnownService(req.name)
    /\ cmds' = cmds \cup {Cmd("cat", req.name)}
    /\ \E code \in {0, 1} :
          IF code # 0
          THEN Respond(500, [description |-> "Failed to read service file"])
          ELSE Respond(200, [service |-> req.name, config |-> "UnitConfig"])
    /\ UNCHANGED <<services_config, status_probe, is_active_stdout, req, pre_status, now, wait, started, is_active>>
    /\ UNCHANGED <<pagVars, extVars>>

\* GET /services/<name>/logs, lines 263-376
GetServiceLogs ==
    /\ pc = "route" /\ req.route = "logs"
    /\ KnownService(req.name)
    /\ \E ints_ok \in BOOLEAN, has_page \in BOOLEAN :
          IF ~ints_ok
          THEN /\ Respond(500, [service |-> req.name, error |-> "Error retrieving logs",
                                log_count |-> 0, logs |-> <<>>])
               /\ UNCHANGED cmds
          ELSE IF has_page
          THEN /\ cmds' = cmds \cup {Cmd("journalctl | wc -l", req.name),
                                     Cmd("journalctl | tail | head", req.name)}
               /\ Respond(200, [body |-> "PaginatedLogs"])
          ELSE /\ cmds' = cmds \cup {Cmd("journalctl", req.name)}
               /\ Respond(200, [service |-> req.name, body |-> "logs"])
    /\ UNCHANGED <<services_config, status_probe, is_active_stdout, req, pre_status, now, wait, started, is_active>>
    /\ UNCHANGED <<pagVars, extVars>>

\* GET /services/<name>/details and /unit_info, lines 989-1108
ServiceDetailsV2 ==
    /\ pc = "route" /\ req.route \in {"details", "unit_info"}
    /\ KnownService(req.name)
    /\ \E loaded_check \in LoadStateOutputs, code \in {0, 1} :
          IF UnitNotFound(loaded_check)
          THEN /\ cmds' = cmds \cup {Cmd("show", req.name)}
               /\ Respond(200, [error |-> <<"Service not found", req.name>>])
          ELSE IF code # 0
          THEN /\ cmds' = cmds \cup {Cmd("show", req.name)}
               /\ Respond(200, [error |-> <<"Failed to get service details">>])
          ELSE /\ cmds' = cmds \cup {Cmd("show", req.name)}
                    \cup (IF req.route = "unit_info" THEN {Cmd("cat", req.name)} ELSE {})
               /\ Respond(200, [service |-> req.name, body |-> req.route])
    /\ UNCHANGED <<services_config, status_probe, is_active_stdout, req, pre_status, now, wait, started, is_active>>
    /\ UNCHANGED <<pagVars, extVars>>

\* The control routes all begin: 404 check, then
\* pre_status = get_service_status(service_name).  pre_status is read by the
\* route's first decision only (afterwards it is only logged), so the model
\* keeps it, and the command outputs it was parsed from, until the route
\* moves past that decision.
PreStatus ==
    /\ pc = "route" /\ req.route \in ControlRoutes
    /\ KnownService(req.name)
    /\ \E stdout \in StatusTexts, code \in StatusCodes,
          loaded_check \in LoadStateOutputs, enabled_check \in IsEnabledOutputs :
          /\ cmds' = cmds \cup StatusCommands(req.name, loaded_check)
          /\ status_probe' = [stdout |-> stdout, code |-> code,
                               loaded_check |-> loaded_check,
                               enabled_check |-> enabled_check]
          /\ pre_status' = get_service_status(req.name, stdout, code,
                                              loaded_check, enabled_check)
    /\ pc' = "decide"
    /\ UNCHANGED <<services_config, is_active_stdout, req, now, wait, started, is_active, resp>>
    /\ UNCHANGED <<pagVars, extVars>>

\* ---- lifecycle waiters, lines 111-148 ----

\* _wait_for_service_state(service_name, desired_state, timeout) entered at
\* time t0: start_time = time.time().  The frame also records what the waiter
\* did: probes (0, or 1 for "one or more"), last (the last probe's output),
\* slow (some probe took time) and returned_at (when it returned).
WaitFrame(kind, desired, marker, timeout, t0) ==
    [kind |-> kind, desired |-> desired, marker |-> marker, timeout |-> timeout,
     start_time |-> t0, probes |-> 0, last |-> NoLine, slow |-> FALSE,
     returned_at |-> NoNum]

wait_for_service_state(desired_state, timeout, t0) ==
    WaitFrame("state", desired_state, None, timeout, t0)

\* Variant that waits for the unit to become active.
wait_for_stop_active(timeout, t0) == wait_for_service_state(c_active, timeout, t0)

wait_for_stop(timeout, t0) == wait_for_service_state(c_inactive, timeout, t0)

wait_for_start(timeout, t0) == wait_for_service_state(c_active, timeout, t0)

\* wait_for_start_log: if not start_string, fall back to wait_for_start.
wait_for_start_log(start_string, timeout, t0) ==
    IF ~Truthy(start_string) THEN wait_for_start(timeout, t0)
    ELSE WaitFrame("log", Empty, start_string, timeout, t0)

\* lines 519-526 / 690-697: if start_string: wait_for_start_log(...) else
\* wait_for_start(...)
StartWaiter(start_string, timeout, t0) ==
    IF Truthy(start_string) THEN wait_for_start_log(start_string, timeout, t0)
    ELSE wait_for_start(timeout, t0)

\* Variant that keeps polling two seconds past the timeout.
LoopConditionNoTimeout(w, t) == t - w.start_time < w.timeout + 2 * TicksPerSec

\* while time.time() - start_time < timeout
LoopCondition(w, t) == t - w.start_time < w.timeout

\* Variant that accepts the desired word anywhere in the output.
ProbeMatchesSubstring(w, out) ==
    IF w.kind = "state" THEN Contains(out, w.desired) ELSE Contains(out, <<w.marker>>)

\* if stdout.strip() == desired_state  /  if start_string in stdout
ProbeMatches(w, out) ==
    IF w.kind = "state" THEN Strip(out) = w.desired ELSE Contains(out, <<w.marker>>)

\* Where the route continues when the waiter returns: stop goes to its final
\* status check, start and restart to the is-active probe.
AfterWait == IF req.route = "stop" THEN "post" ELSE "final"

\* The loop test of the waiter.
WaitCheck ==
    /\ pc = "wait_check"
    /\ IF LoopCondition(wait, now)
       THEN /\ pc' = "wait_probe"
            /\ UNCHANGED <<wait, started>>
       ELSE /\ started' = FALSE
            /\ wait' = [wait EXCEPT !.returned_at = now]
            /\ pc' = AfterWait
    /\ UNCHANGED <<services_config, status_probe, is_active_stdout, req, cmds, pre_status, now, is_active, resp>>
    /\ UNCHANGED <<pagVars, extVars>>

\* One probe: `systemctl is-active` or `journalctl -n 50`, taking d ticks.
WaitProbe ==
    /\ pc = "wait_probe"
    /\ \E d \in 0..MaxProbeTicks,
          out \in (IF wait.kind = "state" THEN IsActiveOutputs ELSE LogTails) :
          /\ now' = now + d
          /\ cmds' = cmds \cup {Cmd(IF wait.kind = "state" THEN "is-active"
                                    ELSE "journalctl", req.name)}
          /\ IF ProbeMatches(wait, out)
             THEN /\ started' = TRUE
                  /\ wait' = [wait EXCEPT !.probes = 1, !.last = out,
                                          !.slow = @ \/ d > 0,
                                          !.returned_at = now + d]
                  /\ pc' = AfterWait
             ELSE /\ wait' = [wait EXCEPT !.probes = 1, !.last = out,
                                          !.slow = @ \/ d > 0]
                  /\ pc' = "wait_sleep"
                  /\ UNCHANGED started
    /\ UNCHANGED <<services_config, status_probe, is_active_stdout, req, pre_status, is_active, resp>>
    /\ UNCHANGED <<pagVars, extVars>>

\* time.sleep(1)
WaitSleep ==
    /\ pc = "wait_sleep"
    /\ now' = now + TicksPerSec
    /\ pc' = "wait_check"
    /\ UNCHANGED <<services_config, status_probe, is_active_stdout, req, cmds, pre_status, wait, started, is_active, resp>>
    /\ UNCHANGED <<pagVars, extVars>>

\* ---- control routes ----

TimeoutOf(name, key) == Get(services_config[name], key, DefaultTimeout * TicksPerSec)

\* POST /services/<name>/stop, lines 430-456
StopDecide ==
    /\ pc = "decide" /\ req.route = "stop"
    /\ IF ~Get(pre_status, "running", FALSE)
       THEN /\ Respond(200, [message |-> "is already stopped."])
            /\ UNCHANGED <<cmds, wait>>
       ELSE /\ cmds' = cmds \cup {Cmd("stop", req.name)}
            /\ \E code \in {0, 1} :
                  IF code # 0
                  THEN /\ Respond(500, [description |-> "Failed to stop service"])
                       /\ UNCHANGED wait
                  ELSE /\ wait' = wait_for_stop(TimeoutOf(req.name, "stop_timeout"), now)
                       /\ pc' = "wait_check"
                       /\ UNCHANGED resp
    /\ pre_status' = IF pc' = "responded" THEN pre_status ELSE NoStatus
    /\ status_probe' = IF pc' = "responded" THEN status_probe ELSE NoProbe
    /\ UNCHANGED <<services_config, is_active_stdout, req, now, started, is_active>>
    /\ UNCHANGED <<pagVars, extVars>>

\* POST /services/<name>/start, lines 491-526
StartDecide ==
    /\ pc = "decide" /\ req.route = "start"
    /\ IF Get(pre_status, "running", TRUE)
       THEN /\ Respond(200, [message |-> "is already running."])
            /\ UNCHANGED <<cmds, wait>>
       ELSE /\ cmds' = cmds \cup {Cmd("start", req.name)}
            /\ \E code \in {0, 1} :
                  IF code # 0
                  THEN /\ Respond(500, [description |-> "Failed to start service"])
                       /\ UNCHANGED wait
                  ELSE /\ wait' = StartWaiter(Get(services_config[req.name], "start_string", None),
                                              TimeoutOf(req.name, "start_timeout"), now)
                       /\ pc' = "wait_check"
                       /\ UNCHANGED resp
    /\ pre_status' = IF pc' = "responded" THEN pre_status ELSE NoStatus
    /\ status_probe' = IF pc' = "responded" THEN status_probe ELSE NoProbe
    /\ UNCHANGED <<services_config, is_active_stdout, req, now, started, is_active>>
    /\ UNCHANGED <<pagVars, extVars>>

\* POST /services/<name>/restart, lines 667-697
RestartDecide ==
    /\ pc = "decide" /\ req.route = "restart"
    /\ cmds' = cmds \cup {Cmd("restart", req.name)}
    /\ \E code \in {0, 1} :
          IF code # 0
          THEN /\ Respond(500, [description |-> "Failed to restart service"])
               /\ UNCHANGED wait
          ELSE /\ wait' = StartWaiter(Get(services_config[req.name], "start_string", None),
                                      TimeoutOf(req.name, "start_timeout"), now)
               /\ pc' = "wait_check"
               /\ UNCHANGED resp
    /\ pre_status' = IF pc' = "responded" THEN pre_status ELSE NoStatus
    /\ status_probe' = IF pc' = "responded" THEN status_probe ELSE NoProbe
    /\ UNCHANGED <<services_config, is_active_stdout, req, now, started, is_active>>
    /\ UNCHANGED <<pagVars, extVars>>

\* POST /services/<name>/enable, lines 575-594
EnableDecide ==
    /\ pc = "decide" /\ req.route = "enable"
    /\ IF Get(pre_status, "enabled", FALSE)
       THEN /\ Respond(200, [message |-> "is already enabled."])
            /\ UNCHANGED cmds
       ELSE /\ cmds' = cmds \cup {Cmd("enable", req.name)}
            /\ \E code \in {0, 1} :
                  IF code # 0
                  THEN Respond(500, [description |-> "Failed to enable service"])
                  ELSE pc' = "post" /\ UNCHANGED resp
    /\ pre_status' = IF pc' = "responded" THEN pre_status ELSE NoStatus
    /\ status_probe' = IF pc' = "responded" THEN status_probe ELSE NoProbe
    /\ UNCHANGED <<services_config, is_active_stdout, req, now, wait, started, is_active>>
    /\ UNCHANGED <<pagVars, extVars>>

\* POST /services/<name>/disable, lines 622-641
DisableDecide ==
    /\ pc = "decide" /\ req.route = "disable"
    /\ IF ~Get(pre_status, "enabled", TRUE)
       THEN /\ Respond(200, [message |-> "is already disabled."])
            /\ UNCHANGED cmds
       ELSE /\ cmds' = cmds \cup {Cmd("disable", req.name)}
            /\ \E code \in {0, 1} :
                  IF code # 0
                  THEN Respond(500, [description |-> "Failed to disable service"])
                  ELSE pc' = "post" /\ UNCHANGED resp
    /\ pre_status' = IF pc' = "responded" THEN pre_status ELSE NoStatus
    /\ status_probe' = IF pc' = "responded" THEN status_probe ELSE NoProbe
    /\ UNCHANGED <<services_config, is_active_stdout, req, now, wait, started, is_active>>
    /\ UNCHANGED <<pagVars, extVars>>

\* POST /services/<name>/reload, lines 743-768
ReloadDecide ==
    /\ pc = "decide" /\ req.route = "reload"
    /\ IF ~Get(pre_status, "running", FALSE)
       THEN /\ Respond(400, [description |-> "not running. Cannot reload a stopped service."])
            /\ UNCHANGED cmds
       ELSE /\ cmds' = cmds \cup {Cmd("reload", req.name)}
            /\ \E code \in {0, 1}, unsupported \in BOOLEAN :
                  IF code # 0
                  THEN IF unsupported
                       THEN Respond(400, [description |-> "does not support reload operation"])
                       ELSE Respond(500, [description |-> "Failed to reload service"])
                  ELSE pc' = "post" /\ UNCHANGED resp
    /\ pre_status' = IF pc' = "responded" THEN pre_status ELSE NoStatus
    /\ status_probe' = IF pc' = "responded" THEN status_probe ELSE NoProbe
    /\ UNCHANGED <<services_config, is_active_stdout, req, now, wait, started, is_active>>
    /\ UNCHANGED <<pagVars, extVars>>

\* lines 530-532 / 701-703: the final, independent is-active probe
FinalProbe ==
    /\ pc = "final"
    /\ \E out \in IsActiveOutputs :
          /\ is_active_stdout' = out
          /\ is_active' = (Strip(out) = c_active)
    /\ cmds' = cmds \cup {Cmd("is-active", req.name)}
    /\ pc' = "post"
    /\ UNCHANGED <<services_config, status_probe, req, pre_status, now, wait, started, resp>>
    /\ UNCHANGED <<pagVars, extVars>>

\* Variant that needs both the wait and the final probe to succeed.
SuccessRuleBoth(s, a) == s /\ a

\* if started or is_active (lines 536, 707)

SuccessRule(s, a) == s \/ a

\* The response a control route gives after its last status check.
FinalResponse(route, post_status) ==
    LET wait_duration == wait.returned_at - wait.start_time
    IN  CASE route = "stop" ->
               IF started
               THEN [code |-> 200, body |-> [message |-> "stopped successfully.",
                                             duration |-> wait_duration]]
               ELSE [code |-> 500, body |-> [description |-> "Timeout waiting for service to stop"]]
          [] route \in {"start", "restart"} ->
               IF SuccessRule(started, is_active)
               THEN [code |-> 200,
                     body |-> [message |-> IF route = "start" THEN "started successfully."
                                           ELSE "restarted successfully.",
                               duration |-> wait_duration,
                               log_matched |-> started,
                               is_active |-> is_active]]
               ELSE [code |-> 500, body |-> [description |-> "Timeout waiting for service to start"]]
          [] route = "enable" ->
               IF Get(post_status, "enabled", FALSE)
               THEN [code |-> 200, body |-> [message |-> "enabled successfully."]]
               ELSE [code |-> 200, body |-> [message |-> "may not be enabled.",
                                             command_output |-> "stdout"]]
          [] route = "disable" ->
               IF ~Get(post_status, "enabled", TRUE)
               THEN [code |-> 200, body |-> [message |-> "disabled successfully."]]
               ELSE [code |-> 200, body |-> [message |-> "may still be enabled.",
                                             command_output |-> "stdout"]]
          [] route = "reload" ->
               [code |-> 200, body |-> [message |-> "configuration reloaded successfully."]]

\* What the last status check can see.  enable and disable read the record;
\* the other routes only log it, so for them only the LoadState output, which
\* decides the commands run, is varied.
PostTexts(route) ==
    IF route \in {"enable", "disable"} THEN StatusTexts
    ELSE {StatusText(NoLine, NoLine, NoNum, NoTasks, NoMemory, NoLine)}
PostCodes(route) == IF route \in {"enable", "disable"} THEN StatusCodes ELSE {0}
PostEnabled(route) == IF route \in {"enable", "disable"} THEN IsEnabledOutputs ELSE {Empty}

\* post_status = get_service_status(service_name), then the response; a start
\* or restart that timed out also dumps the recent journal.
PostStatus ==
    /\ pc = "post"
    /\ \E stdout \in PostTexts(req.route), code \in PostCodes(req.route),
          loaded_check \in LoadStateOutputs, enabled_check \in PostEnabled(req.route) :
          LET post_status == get_service_status(req.name, stdout, code,
                                                loaded_check, enabled_check)
              r == FinalResponse(req.route, post_status)
          IN  /\ cmds' = cmds \cup StatusCommands(req.name, loaded_check)
                    \cup (IF req.route \in {"start", "restart"} /\ r.code = 500
                          THEN {Cmd("journalctl", req.name)} ELSE {})
              /\ Respond(r.code, r.body)
    /\ UNCHANGED <<services_config, status_probe, is_active_stdout, req, pre_status, now, wait, started, is_active>>
    /\ UNCHANGED <<pagVars, extVars>>

\* The response is sent; the handler's locals are gone.
Reset ==
    /\ pc = "responded"
    /\ pc' = "idle"
    /\ req' = NoReq
    /\ cmds' = {}
    /\ pre_status' = NoStatus
    /\ status_probe' = NoProbe
    /\ is_active_stdout' = Empty
    /\ now' = 0
    /\ wait' = NoWait
    /\ started' = FALSE
    /\ is_active' = FALSE
    /\ resp' = NoResp
    /\ UNCHANGED services_config
    /\ UNCHANGED <<pagVars, extVars>>

SrvNext ==
    \/ Receive \/ Abort404
    \/ ServiceStatus \/ GetServiceConfig \/ GetServiceLogs \/ ServiceDetailsV2
    \/ PreStatus
    \/ StopDecide \/ StartDecide \/ RestartDecide
    \/ EnableDecide \/ DisableDecide \/ ReloadDecide
    \/ WaitCheck \/ WaitProbe \/ WaitSleep
    \/ FinalProbe \/ PostStatus
    \/ Reset

PagNext == JournalAppend \/ PagCall \/ PagReturn

Next == SrvNext

Spec == Init /\ [][Next]_vars

\* The request handler is synchronous and blocking: once a request is being
\* served, the handler keeps taking its next step.
FairSpec == Spec /\ WF_vars(Next)

\* The paginator alone, beside a server that serves no request.
InitPag ==
    /\ PagInit
    /\ SrvInit
    /\ ExtInit
    /\ services_config = ("web" :> [start_string |-> ""]) @@ ("db" :> EmptyDict)

SpecPag == InitPag /\ [][PagNext]_vars

-----------------------------------------------------------------------------
(***************************************************************************)
(*        UNIT-FILE PARSER: get_service_config                             *)
(***************************************************************************)

\* Bound of the parser models.
MaxUnitLines == 4     \* lines in the output of `systemctl cat`

(* A line is a sequence of tokens: the characters the parser looks for      *)
(* (space, "#", "[", "]", "=", the double quote, the backslash) one by one, *)
(* and words holding none of them as single tokens.  "X-Metadata-" is the   *)
(* 11-character prefix as one token.                                        *)
QUOTE == "\""
BSLASH == "\\"
XMETA == "X-Metadata-"

\* Words made of letters only: what [A-Za-z]+ matches.
LetterWords == {"Unit", "Service", "Install", "Socket", "Environment",
                "ExecStart", "Description", "FOO", "bar", "abc", "BAZ"}

\* str.startswith
StartsWith(s, prefix) ==
    Len(s) >= Len(prefix) /\ SubSeq(s, 1, Len(prefix)) = prefix

\* The lines of a unit file, as `systemctl cat` prints them.
CatLines ==
    { <<"[", "Unit", "]">>,
      <<"[", "Service", "]">>,
      <<"[", "Socket", "]">>,
      <<"Environment", "=", "FOO", "=", "bar">>,
      <<"Environment", "=", QUOTE, "BAZ", "=", "1", QUOTE>>,
      <<"Environment", "=">>,
      <<"Environment">>,
      <<"ExecStart", "=", "abc">>,
      <<" ", "ExecStart", " ", "=", " ", "bar", " ">>,
      <<XMETA, "VM_hostname", "=", QUOTE, "abc", QUOTE>>,
      <<XMETA, "VM_hostname", "=", "bar">>,
      <<XMETA, "VM", "=", QUOTE, "a", BSLASH, QUOTE, "b", QUOTE>>,
      <<"#", " ", XMETA, "VM", "=", "abc">>,
      <<" ">> }

\* re.match(r"\[([A-Za-z]+)\]", line): the group, or NoLine.
section_match(line) ==
    LET close == {j \in 3..Len(line) :
                     /\ line[j] = "]"
                     /\ \A i \in 2..(j - 1) : line[i] \in LetterWords}
    IN  IF line # <<>> /\ line[1] = "[" /\ close # {}
        THEN SubSeq(line, 2, SetMin(close) - 1)
        ELSE NoLine

\* line.split("=", 1), for a line that holds "=".
SplitEq(line) ==
    LET at == SetMin({i \in 1..Len(line) : line[i] = "="})
    IN  <<SubSeq(line, 1, at - 1), SubSeq(line, at + 1, Len(line))>>

\* if value.startswith('"') and value.endswith('"'): value = value[1:-1]
Unquote(value) ==
    IF value # <<>> /\ value[1] = QUOTE /\ value[Len(value)] = QUOTE
    THEN SubSeq(value, 2, Len(value) - 1)
    ELSE value

\* value.replace('\\"', '"')
RECURSIVE Unescape(_)
Unescape(value) ==
    IF value = <<>> THEN <<>>
    ELSE IF Len(value) >= 2 /\ value[1] = BSLASH /\ value[2] = QUOTE
    THEN <<QUOTE>> \o Unescape(SubSeq(value, 3, Len(value)))
    ELSE <<Head(value)>> \o Unescape(Tail(value))

\* A Python str and a Python list of str, kept apart.
PyStr(v) == [str |-> v]
PyList(l) == [list |-> l]

k_Unit == <<"Unit">>
k_Service == <<"Service">>
k_Install == <<"Install">>
k_Environment == <<"Environment">>

\* sections = {"Unit": {}, "Service": {}, "Install": {}}
EmptySections == [sec \in {k_Unit, k_Service, k_Install} |-> EmptyDict]

\* The parser's locals before the first line, lines 214-216.
ConfigStart ==
    [current_section |-> NoLine, sections |-> EmptySections,
     custom_metadata |-> EmptyDict, raised |-> FALSE]

\* Variant that stores a lone Environment line as a bare string.
EnvironmentEntryBare(service, value) ==
    IF k_Environment \notin DOMAIN service
    THEN Put(service, k_Environment, PyStr(value))
    ELSE Put(service, k_Environment,
             PyList((IF "str" \in DOMAIN service[k_Environment]
                     THEN <<service[k_Environment].str>>
                     ELSE service[k_Environment].list) \o <<value>>))

\* lines 249-251: create the list on the first Environment line, append.
EnvironmentEntry(service, value) ==
    LET sofar == IF k_Environment \notin DOMAIN service THEN <<>>
                 ELSE service[k_Environment].list
    IN  Put(service, k_Environment, PyList(sofar \o <<value>>))

\* Variant that files X-Metadata keys like any other key.
IsMetadataKeyNever(key) == FALSE

\* if key.startswith("X-Metadata-")
IsMetadataKey(key) == key # <<>> /\ Head(key) = XMETA

\* One iteration of the loop over stdout.splitlines(), lines 219-254.
ConfigLine(st, raw) ==
    LET line == Strip(raw)
        sm == section_match(line)
        kv == SplitEq(line)
        key == Strip(kv[1])
        value == Unescape(Unquote(Strip(kv[2])))
        cs == st.current_section
    IN  IF st.raised THEN st
        ELSE IF line = <<>> \/ line[1] = "#" THEN st
        ELSE IF sm # NoLine THEN [st EXCEPT !.current_section = sm]
        ELSE IF cs = NoLine \/ "=" \notin {line[i] : i \in 1..Len(line)} THEN st
        ELSE IF IsMetadataKey(key)
        THEN [st EXCEPT !.custom_metadata = Put(@, Tail(key), value)]
        ELSE IF cs = k_Service /\ key = k_Environment
        THEN [st EXCEPT !.sections[k_Service] = EnvironmentEntry(@, value)]
        ELSE IF cs \notin DOMAIN st.sections
        THEN [st EXCEPT !.raised = TRUE]      \* KeyError
        ELSE [st EXCEPT !.sections[cs] = Put(@, key, PyStr(value))]

RECURSIVE ConfigLines(_, _)
ConfigLines(st, lines) ==
    IF lines = <<>> THEN st ELSE ConfigLines(ConfigLine(st, Head(lines)), Tail(lines))

\* get_service_config on the text `systemctl cat` printed (exit code 0).
get_service_config(stdout) ==
    LET st == ConfigLines(ConfigStart, stdout)
    IN  IF st.raised THEN [fn |-> "config", raised |-> TRUE]
        ELSE [fn |-> "config", raised |-> FALSE,
              config |-> st.sections, metadata |-> st.custom_metadata]

\* The unit file gets one more line.
CatAppend ==
    /\ unit_pc = "edit"
    /\ Len(unit_text) < MaxUnitLines
    /\ \E l \in CatLines : unit_text' = Append(unit_text, l)
    /\ UNCHANGED <<show_text, unit_pc, unit_result>>
    /\ UNCHANGED <<pagVars, srvVars, clientVars, dashVars, uiVars>>

\* GET /services/<name>/config: parse the file.
ParseConfig ==
    /\ unit_pc = "edit"
    /\ unit_result' = get_service_config(unit_text)
    /\ unit_pc' = "parsed"
    /\ UNCHANGED <<unit_text, show_text>>
    /\ UNCHANGED <<pagVars, srvVars, clientVars, dashVars, uiVars>>

CfgNext == CatAppend \/ ParseConfig

\* The unit-file parser alone.
SpecCfg == InitPag /\ [][CfgNext]_vars

-----------------------------------------------------------------------------
(***************************************************************************)
(*   PROPERTY PARSER: get_service_unit_info_v2 and _parse_x_metadata       *)
(***************************************************************************)

\* Bounds of the model of /unit_info.
MaxShowLines == 2     \* lines in the output of `systemctl show`
MaxMetaLines == 2     \* lines in the output of `systemctl cat`

(* A line of `systemctl show` is <name>=<value>.  A property name is spelled *)
(* character by character, a value is a sequence of tokens.                 *)
ShowNames ==
    { <<"D", "e", "s", "c", "r", "i", "p", "t", "i", "o", "n">>,
      <<"A", "f", "t", "e", "r">>,
      <<"T", "y", "p", "e">>,
      <<"E", "x", "e", "c", "S", "t", "a", "r", "t">>,
      <<"E", "x", "e", "c", "S", "t", "a", "r", "t", "P", "r", "e">>,
      <<"R", "e", "s", "t", "a", "r", "t", "U", "S", "e", "c">>,
      <<"N", "R", "e", "s", "t", "a", "r", "t", "s">>,
      <<"E", "n", "v", "i", "r", "o", "n", "m", "e", "n", "t">>,
      <<"W", "a", "n", "t", "e", "d", "B", "y">>,
      <<"W", "a", "n", "t", "s">>,
      <<"M", "a", "i", "n", "P", "I", "D">> }

\* filter_values, line 887
FilterValues ==
    { <<"n/a">>, <<"0">>, <<"infinity">>, <<"[no data]">>, <<"null">>,
      <<"[not set]">>, <<>> }

ShowLines ==
    {n \o <<"=", "x">> : n \in ShowNames}
    \cup { <<"D", "e", "s", "c", "r", "i", "p", "t", "i", "o", "n">> \o <<"=", "y">>,
           <<"W", "a", "n", "t", "s">> \o <<"=", "0">>,
           <<"M", "a", "i", "n", "P", "I", "D">> \o <<"=">>,
           <<"E", "x", "e", "c", "S", "t", "a", "r", "t">> \o <<"=", "{", " ", "path", "=", "/bin/x", " ", ";", " ", "}">>,
           <<"E", "n", "v", "i", "r", "o", "n", "m", "e", "n", "t">> \o <<"=", "A", "=", "1", " ", "B", "=", "2,3">>,
           <<"junk">> }

\* "\n".join(lines) and text.split("\n")
RECURSIVE JoinLines(_)
JoinLines(lines) ==
    IF lines = <<>> THEN <<>>
    ELSE IF Len(lines) = 1 THEN lines[1]
    ELSE lines[1] \o NL \o JoinLines(Tail(lines))

RECURSIVE SplitLines(_)
SplitLines(text) ==
    LET nl == {i \in 1..Len(text) : text[i] = "\n"}
    IN  IF nl = {} THEN <<text>>
        ELSE <<SubSeq(text, 1, SetMin(nl) - 1)>>
                \o SplitLines(SubSeq(text, SetMin(nl) + 1, Len(text)))

\* _parse_systemctl_show_output, lines 884-897
RECURSIVE ShowFold(_, _)
ShowFold(result, lines) ==
    IF lines = <<>> THEN result
    ELSE LET line == Head(lines)
             kv == SplitEq(line)
         IN  IF "=" \notin {line[i] : i \in 1..Len(line)} \/ kv[2] \in FilterValues
             THEN ShowFold(result, Tail(lines))
             ELSE ShowFold(Put(result, kv[1], kv[2]), Tail(lines))

parse_systemctl_show_output(output) ==
    ShowFold(EmptyDict, SplitLines(Strip(JoinLines(output))))

\* section_prefixes, lines 1058-1062, in the order the loops visit them.
SectionPrefixes ==
    <<
      [section |-> k_Unit, prefix |-> <<"D", "e", "s", "c", "r", "i", "p", "t", "i", "o", "n">>],
      [section |-> k_Unit, prefix |-> <<"D", "o", "c", "u", "m", "e", "n", "t", "a", "t", "i", "o", "n">>],
      [section |-> k_Unit, prefix |-> <<"B", "e", "f", "o", "r", "e">>],
      [section |-> k_Unit, prefix |-> <<"A", "f", "t", "e", "r">>],
      [section |-> k_Unit, prefix |-> <<"W", "a", "n", "t", "s">>],
      [section |-> k_Unit, prefix |-> <<"R", "e", "q", "u", "i", "r", "e", "s">>],
      [section |-> k_Service, prefix |-> <<"T", "y", "p", "e">>],
      [section |-> k_Service, prefix |-> <<"E", "x", "e", "c", "S", "t", "a", "r", "t">>],
      [section |-> k_Service, prefix |-> <<"E", "x", "e", "c", "S", "t", "o", "p">>],
      [section |-> k_Service, prefix |-> <<"R", "e", "s", "t", "a", "r", "t">>],
      [section |-> k_Service, prefix |-> <<"E", "n", "v", "i", "r", "o", "n", "m", "e", "n", "t">>],
      [section |-> k_Service, prefix |-> <<"U", "s", "e", "r">>],
      [section |-> k_Service, prefix |-> <<"G", "r", "o", "u", "p">>],
      [section |-> k_Service, prefix |-> <<"W", "o", "r", "k", "i", "n", "g", "D", "i", "r", "e", "c", "t", "o", "r", "y">>],
      [section |-> k_Install, prefix |-> <<"W", "a", "n", "t", "e", "d", "B", "y">>],
      [section |-> k_Install, prefix |-> <<"A", "l", "i", "a", "s">>]
    >>

c_Exec == <<"E", "x", "e", "c">>
c_Environment == <<"E", "n", "v", "i", "r", "o", "n", "m", "e", "n", "t">>

\* Variant that looks for the prefix anywhere in the name.
PrefixMatchesAnywhere(key, prefix) == Contains(key, prefix)

\* if key.startswith(prefix), line 1069
PrefixMatches(key, prefix) == StartsWith(key, prefix)

\* The section the loops of lines 1067-1081 assign a property to: that of the
\* first matching prefix; NoLine when no prefix matches.
AssignSection(key) ==
    LET hits == {n \in 1..Len(SectionPrefixes) :
                    PrefixMatches(key, SectionPrefixes[n].prefix)}
    IN  IF hits = {} THEN NoLine ELSE SectionPrefixes[SetMin(hits)].section

\* _parse_exec_directive and _parse_environment_directive, kept uninterpreted:
\* the structured value made from the text.
parse_exec_directive(value) == [exec_of |-> value]
parse_environment_directive(value) == [environment_of |-> value]

\* lines 1071-1077: the value filed under the property's name
SectionValue(key, value) ==
    IF StartsWith(key, c_Exec) /\ value # <<>> /\ value[1] = "{"
    THEN parse_exec_directive(value)
    ELSE IF key = c_Environment THEN parse_environment_directive(value)
    ELSE PyStr(value)

\* lines 1055-1081: sections built from all_properties
GroupSections(all_properties) ==
    [sec \in {k_Unit, k_Service, k_Install} |->
        [key \in {k \in DOMAIN all_properties : AssignSection(k) = sec} |->
            SectionValue(key, all_properties[key])]]

\* The lines of the unit file that matter to _parse_x_metadata.  Here "_" is
\* a token of its own.
MetaLines ==
    { <<XMETA, "VM", "=", "a">>,
      <<XMETA, "VM", "_", "hostname", "=", QUOTE, "b", QUOTE>>,
      <<XMETA, "VM", "_", "hostname", "_", "x", "=", "c">>,
      <<" ", XMETA, "Owner", "=", "a", " ">>,
      <<"ExecStart", "=", "abc">> }

\* key_path.split('_')
RECURSIVE SplitUnderscore(_)
SplitUnderscore(path) ==
    LET us == {i \in 1..Len(path) : path[i] = "_"}
    IN  IF us = {} THEN <<path>>
        ELSE <<SubSeq(path, 1, SetMin(us) - 1)>>
                \o SplitUnderscore(SubSeq(path, SetMin(us) + 1, Len(path)))

\* value.replace('"', '')
RemoveQuotes(value) == SelectSeq(value, LAMBDA c : c # QUOTE)

\* A value of the nested metadata: a str or a dict.
Leaf(v) == [leaf |-> v]
Node(d) == [map |-> d]
IsLeaf(x) == "leaf" \in DOMAIN x

\* The outcome of the walk: the dict as changed, or TypeError (item access on
\* a str).
Done(d) == [raised |-> FALSE, d |-> d]
TypeError == [raised |-> TRUE, d |-> EmptyDict]

\* lines 976-985: walk the key path down from `current`, a dict, creating
\* dicts on the way, and set the last key.  When the walk steps onto a str,
\* the next subscript on it raises TypeError.
RECURSIVE SetPath(_, _, _)
SetPath(current, keys, value) ==
    LET k == Head(keys)
    IN  IF Len(keys) = 1 THEN Done(Put(current, k, Leaf(value)))
        ELSE IF k \in DOMAIN current /\ IsLeaf(current[k]) THEN TypeError
        ELSE LET child == IF k \notin DOMAIN current THEN EmptyDict
                          ELSE current[k].map
                 below == SetPath(child, Tail(keys), value)
             IN  IF below.raised THEN TypeError
                 ELSE Done(Put(current, k, Node(below.d)))

\* One iteration of the loop of lines 961-985.
MetadataLine(metadata, raw) ==
    LET line == Strip(raw)
        x_data == Tail(line)
        kv == SplitEq(x_data)
    IN  IF metadata.raised THEN metadata
        ELSE IF line = <<>> \/ Head(line) # XMETA THEN metadata
        ELSE IF "=" \notin {x_data[i] : i \in 1..Len(x_data)} THEN metadata
        ELSE SetPath(metadata.d, SplitUnderscore(Lower(kv[1])),
                     Strip(RemoveQuotes(kv[2])))

RECURSIVE MetadataFold(_, _)
MetadataFold(metadata, lines) ==
    IF lines = <<>> THEN metadata
    ELSE MetadataFold(MetadataLine(metadata, Head(lines)), Tail(lines))

\* _parse_x_metadata on the exit code and text of `systemctl cat`: the dict
\* returned, or that TypeError left the function.
parse_x_metadata(stdout, code) ==
    IF code # 0 THEN Done(EmptyDict) ELSE MetadataFold(Done(EmptyDict), stdout)

\* get_service_unit_info_v2 on what its three commands printed.
get_service_unit_info_v2(loaded_check, show_stdout, show_code, cat_stdout, cat_code) ==
    LET all_properties == parse_systemctl_show_output(show_stdout)
        custom_metadata == parse_x_metadata(cat_stdout, cat_code)
    IN  IF UnitNotFound(loaded_check)
        THEN [fn |-> "unit_info", raised |-> FALSE, error |-> "Service not found"]
        ELSE IF show_code # 0
        THEN [fn |-> "unit_info", raised |-> FALSE,
              error |-> "Failed to get service details"]
        ELSE IF custom_metadata.raised
        THEN [fn |-> "unit_info", raised |-> TRUE]
        ELSE [fn |-> "unit_info", raised |-> FALSE,
              config |-> GroupSections(all_properties),
              metadata |-> custom_metadata.d,
              all_properties |-> all_properties]

\* `systemctl show` has one more property to print.
ShowAppend ==
    /\ unit_pc = "edit"
    /\ Len(show_text) < MaxShowLines
    /\ \E l \in ShowLines : show_text' = Append(show_text, l)
    /\ UNCHANGED <<unit_text, unit_pc, unit_result>>
    /\ UNCHANGED <<pagVars, srvVars, clientVars, dashVars, uiVars>>

\* The unit file gets one more line.
MetaAppend ==
    /\ unit_pc = "edit"
    /\ Len(unit_text) < MaxMetaLines
    /\ \E l \in MetaLines : unit_text' = Append(unit_text, l)
    /\ UNCHANGED <<show_text, unit_pc, unit_result>>
    /\ UNCHANGED <<pagVars, srvVars, clientVars, dashVars, uiVars>>

\* GET /services/<name>/unit_info for a configured name.
UnitInfoV2 ==
    /\ unit_pc = "edit"
    /\ \E loaded_check \in {c_LoadState \o c_loaded \o NL, c_LoadState \o c_not_found \o NL},
          show_code \in {0, 1}, cat_code \in {0, 1} :
          unit_result' = [probe |-> [loaded_check |-> loaded_check,
                                     show_code |-> show_code, cat_code |-> cat_code]]
                         @@ get_service_unit_info_v2(loaded_check, show_text, show_code,
                                                     unit_text, cat_code)
    /\ unit_pc' = "parsed"
    /\ UNCHANGED <<unit_text, show_text>>
    /\ UNCHANGED <<pagVars, srvVars, clientVars, dashVars, uiVars>>

InfoNext == ShowAppend \/ MetaAppend \/ UnitInfoV2

\* The /unit_info handler alone.
SpecInfo == InitPag /\ [][InfoNext]_vars

-----------------------------------------------------------------------------
(***************************************************************************)
(*      CLIENT: ResourceManagerClient (client/resource_manager_client.py)  *)
(*                                                                         *)
(* A Python value is a record tagged with its type, so that code which     *)
(* inspects the type of what it received (isinstance, .get on a str,       *)
(* iterating a dict) can be modelled by what it does.  The network and the *)
(* server are the environment: every request meets one condition of        *)
(* NetConds and, when it is answered, carries the body the server sent.    *)
(***************************************************************************)


SeqRange(s) == {s[i] : i \in 1..Len(s)}
\* `for service in services`: the elements of a list, the keys of a dict.
Iter(x) == IF x.t = "list" THEN SeqRange(x.v) ELSE DOMAIN x.v

\* x.get(k, default) on a dict.
PyGet(x, k, default) == Get(x.v, k, default)
\* k in x, for a dict x.
PyIn(k, x) == k \in DOMAIN x.v


\* What can happen to one HTTP request: answered with 200, no connection,
\* no answer within the timeout, answered with 404, with 500, with another
\* error status (raise_for_status raises HTTPError).
NetConds == {"ok", "unreachable", "timeout", "http404", "http500",
             "http_error"}

\* The standardized error response of _make_request.
ErrorPayload(e, m) == JDict(("error" :> JStr(e)) @@ ("message" :> JStr(m)))

\* _make_request: the ValueError and RuntimeError raised inside the try are
\* not requests exceptions, so no except clause catches them.
_make_request(net, body) ==
    CASE net = "ok" -> Ret(body)
      [] net = "unreachable" ->
            Ret(ErrorPayload("connection_failed", "Could not connect"))
      [] net = "timeout" -> Ret(ErrorPayload("timeout", "Request timed out"))
      [] net = "http404" -> Raise("ValueError")
      [] net = "http500" -> Raise("RuntimeError")
      [] net = "http_error" -> Ret(ErrorPayload("request_error", "str(e)"))

list_services(net, body) == _make_request(net, body)

client_get_service_status(net, body) == _make_request(net, body)

get_all_services_status(net, body) == _make_request(net, body)

\* {name: status.get(key, False) for name, status in all_statuses.items()}:
\* .get is looked up on every value of the dict the request returned, and a
\* str has no attribute get.
BulkStatus(net, body, key) ==
    LET r == get_all_services_status(net, body)
    IN  IF r.raised THEN r
        ELSE IF \E name \in DOMAIN r.value.v : r.value.v[name].t # "dict"
             THEN Raise("AttributeError")
        ELSE Ret(JDict([name \in DOMAIN r.value.v |->
                          PyGet(r.value.v[name], key, JBool(FALSE))]))

get_all_services_running_status(net, body) == BulkStatus(net, body, "running")

get_all_services_boot_status(net, body) == BulkStatus(net, body, "enabled")

is_service_running(net, body) ==
    LET r == client_get_service_status(net, body)
    IN  IF r.raised THEN r ELSE Ret(PyGet(r.value, "running", JBool(FALSE)))

is_service_enabled(net, body) ==
    LET r == client_get_service_status(net, body)
    IN  IF r.raised THEN r ELSE Ret(PyGet(r.value, "enabled", JBool(FALSE)))

\* get_service_resource_usage: logs and re-raises what get_service_status
\* raised; without a "details" dict only the running flag is reported.
get_service_resource_usage(service_name, net, body) ==
    LET r == client_get_service_status(net, body)
        status == r.value
    IN  IF r.raised THEN r
        ELSE IF PyIn("details", status) /\ status.v["details"].t = "dict"
             THEN Ret(JDict(("service" :> JStr(service_name))
                            @@ ("pid" :> PyGet(status.v["details"], "pid",
                                               JNone))))
        ELSE Ret(JDict(("service" :> JStr(service_name))
                       @@ ("running" :>
                             JBool(Contains(Lower(PyGet(status, "active",
                                                        JStr(Empty)).v),
                                            c_running)))))

\* get_service_config: logs and re-raises; config.get on the error payload
\* finds no 'config' key and returns the payload.
client_get_service_config(net, body) == _make_request(net, body)

\* get_service_metadata: every exception becomes {}; a reply without a
\* 'metadata' key gives {}.
get_service_metadata(net, body) ==
    LET r == client_get_service_config(net, body)
    IN  IF r.raised THEN Ret(JDict(EmptyDict))
        ELSE Ret(PyGet(r.value, "metadata", JDict(EmptyDict)))

\* get_service_logs: any exception becomes a reply with an empty log list.
get_service_logs(service_name, net, body) ==
    LET r == _make_request(net, body)
    IN  IF r.raised
        THEN Ret(JDict(("service" :> JStr(service_name))
                       @@ ("error" :> JStr(r.exc))
                       @@ ("logs" :> JList(<<>>))))
        ELSE r

\* check_server_health: any exception becomes status "unreachable".
check_server_health(net, body) ==
    LET r == _make_request(net, body)
    IN  IF r.raised
        THEN Ret(JDict(("status" :> JStr("unreachable"))
                       @@ ("error" :> JStr(r.exc))))
        ELSE r

\* The control methods: the POST and nothing else.
start_service(net, body) == _make_request(net, body)
stop_service(net, body) == _make_request(net, body)
restart_service(net, body) == _make_request(net, body)
reload_service(net, body) == _make_request(net, body)
enable_service(net, body) == _make_request(net, body)
disable_service(net, body) == _make_request(net, body)

ControlCalls == {"start_service", "stop_service", "restart_service",
                 "reload_service", "enable_service", "disable_service"}

\* ---- what the server answers -----------------------------------------
ServiceNames == {"a", "b"}

\* ---- controlling several services, lines 410-446 ----------------------

\* The body of the loop: the try around one POST.  Only an exception makes
\* the entry a failure.
BulkEntry(r) ==
    IF r.raised
    THEN JDict(("success" :> JBool(FALSE)) @@ ("error" :> JStr(r.exc)))
    ELSE JDict(("success" :> JBool(TRUE))
               @@ ("message" :> PyGet(r.value, "message", JStr(""))))

\* restart_services(service_names); nets[s] is what happens to the POST for
\* service s, body what the server answers when it answers 200.
restart_services(service_names, nets, body) ==
    Ret(JDict([s \in SeqRange(service_names) |->
                 BulkEntry(_make_request(nets[s], body))]))

\* stop_all_services(): the loop runs over whatever list_services returned.
stop_all_services(list_net, list_body, nets, body) ==
    LET services == list_services(list_net, list_body)
    IN  IF services.raised THEN services
        ELSE Ret(JDict([s \in Iter(services.value) |->
                          BulkEntry(_make_request(nets[s], body))]))

\* The names a stop_all_services call sends a stop request for.
StopTargets(list_net, list_body) ==
    LET services == list_services(list_net, list_body)
    IN  IF services.raised THEN {} ELSE Iter(services.value)

\* What can happen to a POST for a name: a name the server does not
\* configure is never answered 200.
PostConds(s) ==
    IF s \in ServiceNames THEN NetConds ELSE NetConds \ {"ok", "http500"}

\* GET /services/<name>/status of a running and of a stopped unit (the
\* latter as an older server reports it, without details).
StatusBodies ==
    { JDict(("running" :> JBool(TRUE)) @@ ("enabled" :> JBool(TRUE))
            @@ ("active" :> JStr(c_active \o SP \o c_running))
            @@ ("details" :> JDict("pid" :> JStr("1")))),
      JDict(("running" :> JBool(FALSE)) @@ ("enabled" :> JBool(FALSE))
            @@ ("active" :> JStr(c_inactive \o SP \o c_dead))) }

\* GET /services/status for the services in names, all of them in state b.
AllStatusBody(names, b) ==
    JDict([n \in names |->
             JDict(("running" :> JBool(b)) @@ ("enabled" :> JBool(b)))])

\* GET /services/<name>/config with and without metadata.
ConfigBodies ==
    { JDict(("config" :> JDict(EmptyDict))
            @@ ("metadata" :> JDict("Owner" :> JStr("ops")))),
      JDict("config" :> JDict(EmptyDict)) }

MessageBody == JDict("message" :> JStr("done"))
HealthBody == JDict("status" :> JStr("healthy"))
LogsBody == JDict("logs" :> JList(<<"l1">>))

\* The public calls of the client, with the bodies the server may answer.
ClientCalls ==
    {"list_services", "get_service_status", "get_all_services_status",
     "get_all_services_running_status", "get_all_services_boot_status",
     "is_service_running", "is_service_enabled",
     "get_service_resource_usage", "get_service_config",
     "get_service_metadata", "get_service_logs", "check_server_health"}
    \cup ControlCalls

ClientBodies(call) ==
    CASE call = "list_services" -> {JList(<<"a">>), JList(<<>>)}
      [] call \in {"get_service_status", "is_service_running",
                   "is_service_enabled", "get_service_resource_usage"} ->
            StatusBodies
      [] call \in {"get_all_services_status",
                   "get_all_services_running_status",
                   "get_all_services_boot_status"} ->
            {AllStatusBody({"a"}, TRUE), AllStatusBody({"a", "b"}, FALSE)}
      [] call \in {"get_service_config", "get_service_metadata"} ->
            ConfigBodies
      [] call = "get_service_logs" -> {LogsBody}
      [] call = "check_server_health" -> {HealthBody}
      [] call \in ControlCalls -> {MessageBody}

ClientOutcome(call, net, body) ==
    CASE call = "list_services" -> list_services(net, body)
      [] call = "get_service_status" -> client_get_service_status(net, body)
      [] call = "get_all_services_status" ->
            get_all_services_status(net, body)
      [] call = "get_all_services_running_status" ->
            get_all_services_running_status(net, body)
      [] call = "get_all_services_boot_status" ->
            get_all_services_boot_status(net, body)
      [] call = "is_service_running" -> is_service_running(net, body)
      [] call = "is_service_enabled" -> is_service_enabled(net, body)
      [] call = "get_service_resource_usage" ->
            get_service_resource_usage("a", net, body)
      [] call = "get_service_config" -> client_get_service_config(net, body)
      [] call = "get_service_metadata" -> get_service_metadata(net, body)
      [] call = "get_service_logs" -> get_service_logs("a", net, body)
      [] call = "check_server_health" -> check_server_health(net, body)
      [] call = "start_service" -> start_service(net, body)
      [] call = "stop_service" -> stop_service(net, body)
      [] call = "restart_service" -> restart_service(net, body)
      [] call = "reload_service" -> reload_service(net, body)
      [] call = "enable_service" -> enable_service(net, body)
      [] call = "disable_service" -> disable_service(net, body)


\* A program calls one public method of the client.
ClientCall ==
    /\ \E call \in ClientCalls, net \in NetConds :
         \E body \in ClientBodies(call) :
            client_call' = [call |-> call, net |-> net,
                            out |-> ClientOutcome(call, net, body)]
    /\ UNCHANGED <<pagVars, srvVars, unitVars, dashVars, uiVars>>

\* A program restarts several services or stops all of them.  The record
\* keeps what happened to each POST (sent) and, for stop_all_services, the
\* names the server listed.
RestartServices ==
    /\ \E service_names \in {<<"a">>, <<"a", "b">>} :
         \E nets \in [SeqRange(service_names) -> NetConds] :
            client_call' = [call |-> "restart_services", net |-> "ok",
                            out |-> restart_services(service_names, nets,
                                                     MessageBody),
                            sent |-> nets,
                            listed |-> SeqRange(service_names)]
    /\ UNCHANGED <<pagVars, srvVars, unitVars, dashVars, uiVars>>

StopAllServices ==
    /\ \E list_net \in NetConds, list_body \in ClientBodies("list_services") :
         LET targets == StopTargets(list_net, list_body)
         IN  \E nets \in [targets -> NetConds] :
                /\ \A s \in targets : nets[s] \in PostConds(s)
                /\ client_call' =
                      [call |-> "stop_all_services", net |-> list_net,
                       out |-> stop_all_services(list_net, list_body, nets,
                                                 MessageBody),
                       sent |-> nets,
                       listed |-> IF list_net = "ok"
                                  THEN SeqRange(list_body.v) ELSE {}]
    /\ UNCHANGED <<pagVars, srvVars, unitVars, dashVars, uiVars>>

ClientNext == ClientCall \/ RestartServices \/ StopAllServices

SpecClient == InitPag /\ [][ClientNext]_vars

-----------------------------------------------------------------------------
(***************************************************************************)
(*   DASHBOARD: ShellServiceManager (shell/service_manager.py) driven by   *)
(*   the terminal's main thread (shell/terminal.py) and by the background  *)
(*   refresh worker.                                                       *)
(*                                                                         *)
(* Both threads call load_all_data on the same manager; a call is a        *)
(* sequence of steps (the active host, the reset of the multi-server       *)
(* tables, one step per configured host) which the two threads may         *)
(* interleave.  Every request met by a step draws its condition from       *)
(* DashConds.                                                              *)
(***************************************************************************)

\* The host the manager itself (the ServiceController it extends) talks to.
ActiveHost == "h1"
\* GET /services of each host.
ServicesOf == ("h1" :> <<"a">>) @@ ("h2" :> <<"b">>)

\* One answered request, one error payload, one raised exception.
DashConds == {"ok", "timeout", "http500"}

\* bool(x) of a bool or of a dict.
PyBool(x) == IF x.t = "bool" THEN x.v ELSE DOMAIN x.v # {}

RunningStatusBody ==
    JDict(("running" :> JBool(TRUE)) @@ ("enabled" :> JBool(TRUE))
          @@ ("active" :> JStr(c_active \o SP \o c_running))
          @@ ("details" :> JDict("pid" :> JStr("1"))))
MetadataBody ==
    JDict(("config" :> JDict(EmptyDict))
          @@ ("metadata" :> JDict("Owner" :> JStr("ops"))))

\* The conditions the requests of one step meet, and whether the units are
\* running and enabled when the status request is answered.
StepInputs ==
    [n_list : DashConds, n_run : DashConds, n_boot : DashConds,
     n_meta : DashConds, n_res : DashConds, up : BOOLEAN]

\* x from field number k on is the default: requests the step never makes
\* have no condition to draw.
RestDefault(x, k) ==
    /\ (k <= 2 => x.n_run = "ok")
    /\ (k <= 3 => x.n_boot = "ok")
    /\ (k <= 4 => x.n_meta = "ok")
    /\ (k <= 5 => x.n_res = "ok")
    /\ (k <= 6 => x.up)

\* The inputs whose list and status requests meet any condition while every
\* unit runs and its metadata and resource requests are answered.
ListStatusInputs ==
    {x \in StepInputs : x.n_meta = "ok" /\ x.n_res = "ok" /\ x.up}

\* The inputs of one iteration of _load_all_servers_data: nothing follows a
\* list request that raised or a status request that failed, and no
\* resource request is made for a unit that is not running.
HostInputs ==
    {x \in StepInputs :
        /\ (x.n_list = "http500" => RestDefault(x, 2))
        /\ (x.n_run # "ok" => RestDefault(x, 3))
        /\ (x.n_boot # "ok" => RestDefault(x, 4))
        /\ ((~x.up \/ x.n_list # "ok") => x.n_res = "ok")}

\* The inputs of _load_active_server_data: nothing follows a list request
\* that failed, and without both status replies no unit counts as running.
ActiveInputs ==
    {x \in StepInputs :
        /\ (x.n_list # "ok" => RestDefault(x, 2))
        /\ (x.n_run # "ok" => x.n_boot = "ok")
        /\ ((x.n_run # "ok" \/ x.n_boot # "ok") => (x.n_res = "ok" /\ x.up))
        /\ (~x.up => x.n_res = "ok")}


\* The hosts marked unreachable: a controller of all_servers whose flag is
\* False, and the active host once the manager's own flag is False.
Marked ==
    {h \in HostSet : ~reach[h]}
    \cup (IF self_reach = "False" THEN {ActiveHost} ELSE {})

\* ShellServiceManager.__init__ and the terminal's connectivity check:
\* _initialize_all_servers stores for each host whether its health reply
\* holds no 'error'; a manager whose own health reply holds one is marked
\* and not used.
Construct ==
    /\ m_pc = "construct"
    /\ \E nets \in [HostSet -> DashConds], own \in DashConds :
         LET health(n) == check_server_health(n, HealthBody).value
         IN  /\ reach' = [h \in HostSet |-> ~PyIn("error", health(nets[h]))]
             /\ IF PyIn("error", health(own))
                THEN self_reach' = "False" /\ m_pc' = "unusable"
                ELSE self_reach' = self_reach /\ m_pc' = "load100"
    /\ UNCHANGED <<all_services, all_statuses, active, should_refresh,
                   refresh_thread, w_pc, since, join_wait, stop_cycles,
                   load>>
    /\ UNCHANGED <<pagVars, srvVars, unitVars, clientVars, uiVars>>

\* load_all_data is entered by thread t.
BeginLoad(t, kind, ret) ==
    load' = [load EXCEPT ![t] =
               [pos |-> "active", i |-> 0, kind |-> kind, ret |-> ret,
                marked |-> Marked, called |-> {}, last |-> NoStep,
                success |-> FALSE]]

\* _load_active_server_data: what the manager holds afterwards, whether it
\* marked itself unreachable, and its return value.  list_services is
\* called whatever the manager's own flag says.
ActiveOutcome(a, x) ==
    LET names == SeqRange(ServicesOf[ActiveHost])
        r_list == list_services(x.n_list, JList(ServicesOf[ActiveHost]))
        r_run == get_all_services_running_status(
                     x.n_run, AllStatusBody(names, x.up))
        r_boot == get_all_services_boot_status(
                      x.n_boot, AllStatusBody(names, x.up))
        empty == [a EXCEPT !.services = JList(<<>>),
                           !.running_status = JDict(EmptyDict),
                           !.boot_status = JDict(EmptyDict)]
        statuses_ok == ~r_run.raised /\ ~r_boot.raised
        \* `x or {}`
        running == IF statuses_ok /\ PyBool(r_run.value)
                   THEN r_run.value ELSE JDict(EmptyDict)
        boot == IF statuses_ok /\ PyBool(r_boot.value)
                THEN r_boot.value ELSE JDict(EmptyDict)
        meta == get_service_metadata(x.n_meta, MetadataBody).value
        res(s) == get_service_resource_usage(s, x.n_res, RunningStatusBody)
        runs(s) == PyGet(running, s, JBool(FALSE)).v
        lost(s) == runs(s) /\ res(s).raised
    IN  IF r_list.raised
            \/ (r_list.value.t = "dict" /\ PyIn("error", r_list.value))
        THEN [active |-> empty, marks |-> TRUE, success |-> FALSE]
        ELSE [active |->
                [services |-> r_list.value,
                 running_status |-> running,
                 boot_status |-> boot,
                 metadata |->
                    [s \in Iter(r_list.value) |->
                        IF lost(s) THEN JDict(EmptyDict) ELSE meta]
                    @@ a.metadata,
                 resources |->
                    [s \in Iter(r_list.value) |->
                        IF runs(s) /\ ~res(s).raised THEN res(s).value
                        ELSE JDict(EmptyDict)]
                    @@ a.resources],
              marks |-> FALSE, success |-> TRUE]

\* load_all_data up to the loop of _load_all_servers_data: the active
\* host's data, then self.all_services = {} and self.all_statuses = {} (no
\* request is made between the two).
LoadActive(t, inputs) ==
    /\ load[t].pos = "active"
    /\ \E x \in ActiveInputs \cap inputs :
         LET o == ActiveOutcome(active, x)
         IN  /\ active' = o.active
             /\ self_reach' = IF o.marks THEN "False" ELSE self_reach
             /\ load' = [load EXCEPT ![t].pos = "host", ![t].i = 1,
                                     ![t].called = @ \cup {ActiveHost},
                                     ![t].success = o.success]
    /\ all_services' = EmptyDict
    /\ all_statuses' = EmptyDict
    /\ UNCHANGED <<reach, should_refresh, refresh_thread, w_pc, since, m_pc,
                   join_wait, stop_cycles>>
    /\ UNCHANGED <<pagVars, srvVars, unitVars, clientVars, uiVars>>

\* The controller's flag is read before any request is made.
SkipsHost(reachable) == ~reachable

\* One iteration of the loop of _load_all_servers_data over a host that is
\* not skipped: what all_services holds for it, the status entries written,
\* whether the except clause marked it unreachable, and whether any request
\* it made met a failure.
HostOutcome(h, x) ==
    LET names == SeqRange(ServicesOf[h])
        r_list == list_services(x.n_list, JList(ServicesOf[h]))
        r_run == get_all_services_running_status(
                     x.n_run, AllStatusBody(names, x.up))
        r_boot == get_all_services_boot_status(
                      x.n_boot, AllStatusBody(names, x.up))
        services == r_list.value
        meta == get_service_metadata(x.n_meta, MetadataBody).value
        res(s) == get_service_resource_usage(s, x.n_res, RunningStatusBody)
        runs(s) == PyBool(PyGet(r_run.value, s, JBool(FALSE)))
        entry(s) ==
            [running |-> PyGet(r_run.value, s, JBool(FALSE)),
             enabled |-> PyGet(r_boot.value, s, JBool(FALSE)),
             metadata |-> meta,
             resources |-> IF runs(s) /\ ~res(s).raised THEN res(s).value
                           ELSE JDict(EmptyDict)]
    IN  IF r_list.raised
        THEN [services |-> JList(<<>>), entries |-> EmptyDict,
              marks |-> TRUE, failed |-> TRUE]
        ELSE IF r_run.raised \/ r_boot.raised
        THEN [services |-> JList(<<>>), entries |-> EmptyDict,
              marks |-> TRUE, failed |-> TRUE]
        ELSE [services |-> services,
              entries |-> [k \in {<<h, s>> : s \in Iter(services)} |->
                             entry(k[2])],
              marks |-> FALSE,
              failed |-> \/ x.n_list # "ok"
                         \/ (Iter(services) # {} /\ x.n_meta # "ok")
                         \/ \E s \in Iter(services) :
                               runs(s) /\ x.n_res # "ok"]

LoadHost(t, inputs) ==
    /\ load[t].pos = "host"
    /\ load[t].i <= Len(Hosts)
    /\ LET h == Hosts[load[t].i]
       IN  IF SkipsHost(reach[h])
           THEN /\ all_services' = Put(all_services, h, JList(<<>>))
                /\ load' = [load EXCEPT
                              ![t].i = @ + 1,
                              ![t].last = [host |-> h, skipped |-> TRUE,
                                           failed |-> FALSE,
                                           services |-> JList(<<>>)]]
                /\ UNCHANGED <<reach, all_statuses>>
           ELSE \E x \in HostInputs \cap inputs :
                  LET o == HostOutcome(h, x)
                  IN  /\ all_services' = Put(all_services, h, o.services)
                      /\ all_statuses' = o.entries @@ all_statuses
                      /\ reach' = IF o.marks THEN [reach EXCEPT ![h] = FALSE]
                                  ELSE reach
                      /\ load' = [load EXCEPT
                                    ![t].i = @ + 1,
                                    ![t].called = @ \cup {h},
                                    ![t].last = [host |-> h,
                                                 skipped |-> FALSE,
                                                 failed |-> o.failed,
                                                 services |-> o.services]]
    /\ UNCHANGED <<self_reach, active, should_refresh, refresh_thread, w_pc,
                   since, m_pc, join_wait, stop_cycles>>
    /\ UNCHANGED <<pagVars, srvVars, unitVars, clientVars, uiVars>>

\* load_all_data returns to the thread that called it and its frame is
\* gone; the worker then sets last_refresh.
LoadReturn(t) ==
    /\ load[t].pos = "host"
    /\ load[t].i > Len(Hosts)
    /\ load' = [load EXCEPT ![t] = NoLoad]
    /\ IF t = "worker"
       THEN /\ w_pc' = "sleep"
            /\ since' = 0
            /\ stop_cycles' = IF should_refresh THEN stop_cycles
                              ELSE Min(stop_cycles + 1, MaxStopCycles)
            /\ m_pc' = m_pc
       ELSE /\ m_pc' = load[t].ret
            /\ UNCHANGED <<w_pc, since, stop_cycles>>
    /\ UNCHANGED <<reach, self_reach, all_services, all_statuses, active,
                   should_refresh, refresh_thread, join_wait>>
    /\ UNCHANGED <<pagVars, srvVars, unitVars, clientVars, uiVars>>

\* ---- the terminal's main thread ---------------------------------------
\* terminal.py:100 and terminal.py:1663: the two loads made before the
\* refresh thread exists.
InitialLoad ==
    /\ m_pc \in {"load100", "load1663"}
    /\ BeginLoad("main", "initial",
                 IF m_pc = "load100" THEN "load1663" ELSE "start")
    /\ m_pc' = "loading"
    /\ UNCHANGED <<reach, self_reach, all_services, all_statuses, active,
                   should_refresh, refresh_thread, w_pc, since, join_wait,
                   stop_cycles>>
    /\ UNCHANGED <<pagVars, srvVars, unitVars, clientVars, uiVars>>

start_refresh_thread ==
    /\ m_pc = "start"
    /\ should_refresh' = TRUE
    /\ refresh_thread' = "thread"
    /\ w_pc' = "check"
    /\ m_pc' = "loop"
    /\ UNCHANGED <<reach, self_reach, all_services, all_statuses, active,
                   since, join_wait, stop_cycles, load>>
    /\ UNCHANGED <<pagVars, srvVars, unitVars, clientVars, uiVars>>

\* The R key: handle_list_input calls load_all_data.
KeyR ==
    /\ m_pc = "loop"
    /\ BeginLoad("main", "manual", "loop")
    /\ m_pc' = "loading"
    /\ UNCHANGED <<reach, self_reach, all_services, all_statuses, active,
                   should_refresh, refresh_thread, w_pc, since, join_wait,
                   stop_cycles>>
    /\ UNCHANGED <<pagVars, srvVars, unitVars, clientVars, uiVars>>

\* The q key leaves main_loop; its finally clause calls stop_refresh_thread,
\* which clears the flag and joins the thread if there is one.
stop_refresh_thread ==
    /\ m_pc = "loop"
    /\ should_refresh' = FALSE
    /\ join_wait' = 0
    /\ m_pc' = IF refresh_thread # "None" THEN "join" ELSE "stopped"
    /\ UNCHANGED <<reach, self_reach, all_services, all_statuses, active,
                   refresh_thread, w_pc, since, stop_cycles, load>>
    /\ UNCHANGED <<pagVars, srvVars, unitVars, clientVars, uiVars>>

\* A second passes while the main thread waits in join.
JoinWait ==
    /\ m_pc = "join"
    /\ w_pc # "done"
    /\ join_wait < JoinTimeout
    /\ join_wait' = join_wait + 1
    /\ UNCHANGED <<reach, self_reach, all_services, all_statuses, active,
                   should_refresh, refresh_thread, w_pc, since, m_pc,
                   stop_cycles, load>>
    /\ UNCHANGED <<pagVars, srvVars, unitVars, clientVars, uiVars>>

\* join(timeout=1) returns when the thread has ended or the time is up.
JoinReturns(ended, waited) == ended \/ waited >= JoinTimeout

JoinReturn ==
    /\ m_pc = "join"
    /\ JoinReturns(w_pc = "done", join_wait)
    /\ m_pc' = "stopped"
    /\ UNCHANGED <<reach, self_reach, all_services, all_statuses, active,
                   should_refresh, refresh_thread, w_pc, since, join_wait,
                   stop_cycles, load>>
    /\ UNCHANGED <<pagVars, srvVars, unitVars, clientVars, uiVars>>

\* ---- _refresh_worker --------------------------------------------------
\* `while self.should_refresh:`
WorkerLoopsForever(flag) == TRUE
WorkerLoops(flag) == flag

WorkerCheck ==
    /\ w_pc = "check"
    /\ w_pc' = IF WorkerLoops(should_refresh) THEN "body" ELSE "done"
    /\ UNCHANGED <<reach, self_reach, all_services, all_statuses, active,
                   should_refresh, refresh_thread, since, m_pc, join_wait,
                   stop_cycles, load>>
    /\ UNCHANGED <<pagVars, srvVars, unitVars, clientVars, uiVars>>

\* The body of the loop: a refresh when the interval has passed.
WorkerBody ==
    /\ w_pc = "body"
    /\ IF since > RefreshInterval
       THEN /\ BeginLoad("worker", "auto", "sleep")
            /\ w_pc' = "loading"
       ELSE /\ w_pc' = "sleep"
            /\ UNCHANGED load
    /\ UNCHANGED <<reach, self_reach, all_services, all_statuses, active,
                   should_refresh, refresh_thread, since, m_pc, join_wait,
                   stop_cycles>>
    /\ UNCHANGED <<pagVars, srvVars, unitVars, clientVars, uiVars>>

\* time.sleep(1)
WorkerSleep ==
    /\ w_pc = "sleep"
    /\ since' = Min(since + 1, RefreshInterval + 1)
    /\ w_pc' = "check"
    /\ UNCHANGED <<reach, self_reach, all_services, all_statuses, active,
                   should_refresh, refresh_thread, m_pc, join_wait,
                   stop_cycles, load>>
    /\ UNCHANGED <<pagVars, srvVars, unitVars, clientVars, uiVars>>

WorkerNext ==
    \/ WorkerCheck
    \/ WorkerBody
    \/ WorkerSleep
    \/ LoadActive("worker", ListStatusInputs)
    \/ LoadHost("worker", ListStatusInputs)
    \/ LoadReturn("worker")

MainNext ==
    \/ Construct
    \/ InitialLoad
    \/ start_refresh_thread
    \/ KeyR
    \/ stop_refresh_thread
    \/ JoinWait
    \/ JoinReturn
    \/ LoadActive("main", ListStatusInputs)
    \/ LoadHost("main", ListStatusInputs)
    \/ LoadReturn("main")

DashNext == WorkerNext \/ MainNext

\* The dashboard alone: the main thread and the refresh worker, with the
\* list and status requests of every step meeting any condition.
SpecDash == InitPag /\ [][DashNext]_vars

\* One thread alone: the main thread loads and refreshes by hand, with every
\* request of a step meeting any condition, while the worker it has started
\* has not run yet.
CycleNext ==
    \/ Construct
    \/ InitialLoad
    \/ start_refresh_thread
    \/ KeyR
    \/ LoadActive("main", StepInputs)
    \/ LoadHost("main", StepInputs)
    \/ LoadReturn("main")

SpecCycle == InitPag /\ [][CycleNext]_vars

\* ---- _load_all_servers_data, statement by statement ------------------
\* The two threads share all_services and all_statuses without a lock, so
\* a thread may run between any two statements of the other.  Here a load
\* is cut where it writes the shared tables: after the active host's data,
\* after each of the two resets, after the list of a host is stored (line
\* 143) and after its status entries are stored (lines 150-165).

\* _load_active_server_data (the tables of all hosts are not touched).
StmtActive(t, inputs) ==
    /\ load[t].pos = "active"
    /\ \E x \in ActiveInputs \cap inputs :
         LET o == ActiveOutcome(active, x)
         IN  /\ active' = o.active
             /\ self_reach' = IF o.marks THEN "False" ELSE self_reach
             /\ load' = [load EXCEPT ![t].pos = "clear_services",
                                     ![t].called = @ \cup {ActiveHost},
                                     ![t].success = o.success]
    /\ UNCHANGED <<reach, all_services, all_statuses, should_refresh,
                   refresh_thread, w_pc, since, m_pc, join_wait, stop_cycles>>
    /\ UNCHANGED <<pagVars, srvVars, unitVars, clientVars, uiVars>>

\* self.all_services = {}
StmtClearServices(t) ==
    /\ load[t].pos = "clear_services"
    /\ all_services' = EmptyDict
    /\ load' = [load EXCEPT ![t].pos = "clear_statuses"]
    /\ UNCHANGED <<reach, self_reach, all_statuses, active, should_refresh,
                   refresh_thread, w_pc, since, m_pc, join_wait, stop_cycles>>
    /\ UNCHANGED <<pagVars, srvVars, unitVars, clientVars, uiVars>>

\* self.all_statuses = {}
StmtClearStatuses(t) ==
    /\ load[t].pos = "clear_statuses"
    /\ all_statuses' = EmptyDict
    /\ load' = [load EXCEPT ![t].pos = "host", ![t].i = 1]
    /\ UNCHANGED <<reach, self_reach, all_services, active, should_refresh,
                   refresh_thread, w_pc, since, m_pc, join_wait, stop_cycles>>
    /\ UNCHANGED <<pagVars, srvVars, unitVars, clientVars, uiVars>>

\* The iteration for a host up to self.all_services[server_id] = services:
\* a skipped host and a list request that raised end the iteration, any
\* other reply is stored and kept in the local variable services.
StmtHostList(t, inputs) ==
    /\ load[t].pos = "host"
    /\ load[t].i <= Len(Hosts)
    /\ LET h == Hosts[load[t].i]
       IN  IF SkipsHost(reach[h])
           THEN /\ all_services' = Put(all_services, h, JList(<<>>))
                /\ load' = [load EXCEPT
                              ![t].i = @ + 1,
                              ![t].last = [host |-> h, skipped |-> TRUE,
                                           failed |-> FALSE,
                                           services |-> JList(<<>>)]]
                /\ UNCHANGED reach
           ELSE \E n_list \in {x.n_list : x \in HostInputs \cap inputs} :
                  LET r_list == list_services(n_list, JList(ServicesOf[h]))
                  IN  IF r_list.raised
                      THEN /\ all_services' = Put(all_services, h, JList(<<>>))
                           /\ reach' = [reach EXCEPT ![h] = FALSE]
                           /\ load' = [load EXCEPT
                                         ![t].i = @ + 1,
                                         ![t].called = @ \cup {h},
                                         ![t].last = [host |-> h,
                                                      skipped |-> FALSE,
                                                      failed |-> TRUE,
                                                      services |-> JList(<<>>)]]
                      ELSE /\ all_services' = Put(all_services, h, r_list.value)
                           /\ load' = [load EXCEPT
                                         ![t].pos = "statuses",
                                         ![t].called = @ \cup {h},
                                         ![t].last = [host |-> h,
                                                      skipped |-> FALSE,
                                                      failed |-> n_list # "ok",
                                                      services |-> r_list.value]]
                           /\ UNCHANGED reach
    /\ UNCHANGED <<self_reach, all_statuses, active, should_refresh,
                   refresh_thread, w_pc, since, m_pc, join_wait, stop_cycles>>
    /\ UNCHANGED <<pagVars, srvVars, unitVars, clientVars, uiVars>>

\* The rest of the iteration: the two status requests, then one entry per
\* element of services; an exception stores the empty list and marks the
\* host.
StmtHostStatuses(t, inputs) ==
    /\ load[t].pos = "statuses"
    /\ LET h == Hosts[load[t].i]
       IN  \E x \in HostInputs \cap inputs :
              /\ list_services(x.n_list, JList(ServicesOf[h]))
                    = Ret(load[t].last.services)
              /\ LET o == HostOutcome(h, x)
                 IN  /\ all_services' = IF o.marks
                                        THEN Put(all_services, h, JList(<<>>))
                                        ELSE all_services
                     /\ all_statuses' = o.entries @@ all_statuses
                     /\ reach' = IF o.marks THEN [reach EXCEPT ![h] = FALSE]
                                 ELSE reach
                     /\ load' = [load EXCEPT
                                   ![t].pos = "host",
                                   ![t].i = @ + 1,
                                   ![t].last = [host |-> h, skipped |-> FALSE,
                                                failed |-> o.failed,
                                                services |-> o.services]]
    /\ UNCHANGED <<self_reach, active, should_refresh, refresh_thread, w_pc,
                   since, m_pc, join_wait, stop_cycles>>
    /\ UNCHANGED <<pagVars, srvVars, unitVars, clientVars, uiVars>>

StmtLoad(t) ==
    \/ StmtActive(t, ListStatusInputs)
    \/ StmtClearServices(t)
    \/ StmtClearStatuses(t)
    \/ StmtHostList(t, ListStatusInputs)
    \/ StmtHostStatuses(t, ListStatusInputs)
    \/ LoadReturn(t)

StmtNext ==
    \/ Construct
    \/ InitialLoad
    \/ start_refresh_thread
    \/ KeyR
    \/ WorkerCheck
    \/ WorkerBody
    \/ WorkerSleep
    \/ StmtLoad("worker")
    \/ StmtLoad("main")

\* The dashboard while main_loop runs, its loads cut statement by statement.
SpecStmt == InitPag /\ [][StmtNext]_vars

\* get_combined_services: the (server_id, service) pairs of every host
\* whose entry of all_services is a list.
get_combined_services ==
    UNION { {<<h, s>> : s \in SeqRange(all_services[h].v)} :
            h \in {x \in DOMAIN all_services : all_services[x].t = "list"} }

\* ShellServiceManager.get_service_status(server_id, service)
manager_get_service_status(server_id, service) ==
    Get(all_statuses, <<server_id, service>>, EmptyDict)

\* The worker is a thread of its own and every request it makes ends (each
\* carries a timeout), so it keeps taking its next step; so does the main
\* thread once it is inside stop_refresh_thread.
FairDash ==
    /\ SpecDash
    /\ WF_vars(WorkerNext)
    /\ WF_vars(JoinWait \/ JoinReturn)

-----------------------------------------------------------------------------
(***************************************************************************)
(*   TERMINAL: Terminal (shell/terminal.py) over ShellConfig               *)
(*   (shell/config.py): one ShellServiceManager per host it has talked to, *)
(*   the active host id of the configuration, and the main loop.           *)
(***************************************************************************)

\* What a new manager meets: its health check passes and its first load
\* works, its health check passes and the load marks it unreachable, or the
\* health check reports an error.
HealthConds == {"ok", "load_fails", "error"}

\* ShellConfig.get_current_host_id
get_current_host_id(t) == t.active_host

\* ShellConfig.set_current_host_id: the setting is changed in memory before
\* it is saved; saved is what ClientConfig.save returns.
set_current_host_id(t, host_id, saved) ==
    IF host_id \in TermHosts
    THEN [t |-> [t EXCEPT !.active_host = host_id], ret |-> saved]
    ELSE [t |-> t, ret |-> FALSE]

\* Terminal._initialize_current_manager, lines 68-123.  The result is the
\* terminal afterwards and whether RuntimeError left the call.
RECURSIVE _initialize_current_manager(_, _)
_initialize_current_manager(t, health) ==
    LET host_id == get_current_host_id(t)
    IN  IF t.managers[host_id].exists
        THEN [t |-> [t EXCEPT !.current_manager = host_id], raised |-> FALSE]
        ELSE IF health[host_id] # "error"
        THEN [t |-> [t EXCEPT !.managers[host_id] =
                         [NewManager EXCEPT !.reach =
                             IF health[host_id] = "ok" THEN "unset" ELSE "False"],
                       !.current_manager = host_id],
              raised |-> FALSE]
        ELSE LET t1 == [t EXCEPT !.managers[host_id] =
                           [NewManager EXCEPT !.reach = "False"]]
             IN  IF host_id # "default" /\ "default" \in TermHosts
                 THEN _initialize_current_manager(
                          set_current_host_id(t1, "default", TRUE).t, health)
                 ELSE [t |-> t1, raised |-> TRUE]

\* Terminal.switch_host, lines 125-148.
switch_host(t, host_id, health, saved) ==
    IF host_id = get_current_host_id(t) THEN [t |-> t, ret |-> FALSE]
    ELSE IF t.managers[host_id].exists /\ t.managers[host_id].reach = "False"
    THEN [t |-> t, ret |-> FALSE]
    ELSE LET s == set_current_host_id(t, host_id, saved)
         IN  IF ~s.ret THEN [t |-> s.t, ret |-> FALSE]
             ELSE LET r == _initialize_current_manager(s.t, health)
                  IN  IF ~r.raised THEN [t |-> r.t, ret |-> TRUE]
                      ELSE \* full_config is the terminal's own config object
                           [t |-> set_current_host_id(
                                      r.t, get_current_host_id(r.t), saved).t,
                            ret |-> FALSE]

\* ShellServiceManager.start_refresh_thread / stop_refresh_thread
start_thread(m) == [m EXCEPT !.should_refresh = TRUE, !.thread = TRUE]
stop_thread(m) == [m EXCEPT !.should_refresh = FALSE]

\* Terminal.__init__: the configuration file names the active host, then
\* _initialize_current_manager; an exception ends the program.
TermConstruct ==
    /\ term.pc = "new"
    /\ \E a \in TermHosts, health \in [TermHosts -> HealthConds] :
          LET r == _initialize_current_manager(
                       [term EXCEPT !.active_host = a], health)
          IN  term' = [r.t EXCEPT !.pc = IF r.raised THEN "failed" ELSE "ready"]
    /\ UNCHANGED <<pagVars, srvVars, unitVars, clientVars, dashVars, app>>

\* main_loop up to its while: load_all_data (which may mark the manager
\* unreachable) and start_refresh_thread on current_manager.
MainLoopStart ==
    /\ term.pc = "ready"
    /\ \E load_ok \in BOOLEAN :
          term' = [term EXCEPT
                      !.pc = "loop",
                      !.managers[term.current_manager] =
                          start_thread([@ EXCEPT !.reach =
                                           IF load_ok THEN @ ELSE "False"])]
    /\ UNCHANGED <<pagVars, srvVars, unitVars, clientVars, dashVars, app>>

\* Enter on a row of the hosts view.
SwitchHost ==
    /\ term.pc = "loop"
    /\ \E host_id \in TermHosts, health \in [TermHosts -> HealthConds],
          saved \in BOOLEAN :
          LET r == switch_host(term, host_id, health, saved)
          IN  term' = [r.t EXCEPT !.last =
                          [h |-> host_id, ret |-> r.ret,
                           active_before |-> term.active_host,
                           manager_before |-> term.current_manager]]
    /\ UNCHANGED <<pagVars, srvVars, unitVars, clientVars, dashVars, app>>

\* A refresh, by the worker of a manager or by hand on the displayed one,
\* fails to list the services: the manager marks itself unreachable.
RefreshFails ==
    /\ term.pc = "loop"
    /\ \E h \in TermHosts :
          /\ term.managers[h].exists
          /\ term.managers[h].reach # "False"
          /\ \/ h = term.current_manager
             \/ term.managers[h].thread /\ term.managers[h].should_refresh
          /\ term' = [term EXCEPT !.managers[h].reach = "False"]
    /\ UNCHANGED <<pagVars, srvVars, unitVars, clientVars, dashVars, app>>

\* q, or an exception that leaves the loop: the finally clause stops the
\* worker of current_manager.
MainLoopExit ==
    /\ term.pc = "loop"
    /\ term' = [term EXCEPT !.pc = "exited",
                            !.managers[term.current_manager] = stop_thread(@)]
    /\ UNCHANGED <<pagVars, srvVars, unitVars, clientVars, dashVars, app>>

TermNext ==
    TermConstruct \/ MainLoopStart \/ SwitchHost \/ RefreshFails \/ MainLoopExit

SpecTerm == InitPag /\ [][TermNext]_vars

-----------------------------------------------------------------------------
(***************************************************************************)
(*   UI APPLICATION: ResourceManagerApp (client/ui/app.py) over            *)
(*   HostManager (client/ui/host_manager.py), ClientConfig                 *)
(*   (client/config.py) and UIConfig (client/ui/ui_config.py).  a.hosts is *)
(*   the key order of ClientConfig.hosts without the "_" entries; every    *)
(*   save of a configuration file may fail, and then returns False.        *)
(***************************************************************************)

\* The host ids a caller passes.
AppIds == {hoststr, "h1", "h2"}

\* ClientConfig.get_all_hosts
get_all_hosts(a) == a.hosts
HostIds(a) == SeqRange(a.hosts)

\* del self.hosts[host_id]
Without(hosts, host_id) == SelectSeq(hosts, LAMBDA h : h # host_id)

\* ClientConfig.set_host_config: a new key goes last, an old key stays.
set_host_config(a, host_id, saved) ==
    [a |-> IF host_id \in HostIds(a) THEN a
           ELSE [a EXCEPT !.hosts = Append(@, host_id)],
     ret |-> saved]

\* ClientConfig.remove_host: the entry is deleted before the file is saved.
config_remove_host(a, host_id, saved) ==
    IF host_id \in HostIds(a) /\ host_id # hoststr
    THEN [a |-> [a EXCEPT !.hosts = Without(@, host_id)], ret |-> saved]
    ELSE [a |-> a, ret |-> FALSE]

\* UIConfig.set_default_host_id
set_default_host_id(a, host_id, saved) ==
    IF host_id \notin HostIds(a) THEN [a |-> a, ret |-> FALSE]
    ELSE [a |-> [a EXCEPT !.default_host_id = host_id], ret |-> saved]

\* HostManager.add_host; filled says that id, name and url are not empty.
manager_add_host(a, host_id, filled, saved) ==
    IF ~filled THEN [a |-> a, ret |-> FALSE]
    ELSE IF host_id \in HostIds(a) THEN [a |-> a, ret |-> FALSE]
    ELSE set_host_config(a, host_id, saved)

\* HostManager.update_host
manager_update_host(a, host_id, saved) ==
    IF host_id \notin HostIds(a) THEN [a |-> a, ret |-> FALSE]
    ELSE set_host_config(a, host_id, saved)

\* ResourceManagerApp.add_host
add_host(a, host_id, filled, saved, saved_ui) ==
    LET r == manager_add_host(a, host_id, filled, saved)
    IN  IF r.ret /\ Len(get_all_hosts(r.a)) = 1
        THEN [a |-> [set_default_host_id(r.a, host_id, saved_ui).a
                        EXCEPT !.current_host_id = host_id],
              ret |-> r.ret]
        ELSE r

\* ResourceManagerApp.update_host
update_host(a, host_id, saved) == manager_update_host(a, host_id, saved)

\* ResourceManagerApp.remove_host
remove_host(a, host_id, saved, saved_ui) ==
    LET r == config_remove_host(a, host_id, saved)
        hosts == get_all_hosts(r.a)
    IN  IF r.ret /\ host_id = a.current_host_id
        THEN IF hosts # <<>>
             THEN [a |-> set_default_host_id(
                             [r.a EXCEPT !.current_host_id = hosts[1]],
                             hosts[1], saved_ui).a,
                   ret |-> r.ret]
             ELSE [a |-> [r.a EXCEPT !.current_host_id = "default"],
                   ret |-> r.ret]
        ELSE r

\* ResourceManagerApp.set_current_host
set_current_host(a, host_id, saved_ui) ==
    IF host_id \in HostIds(a)
    THEN [a |-> set_default_host_id(
                    [a EXCEPT !.current_host_id = host_id], host_id,
                    saved_ui).a,
          ret |-> TRUE]
    ELSE [a |-> a, ret |-> FALSE]

\* The application after an operation, with the record of the call.
AppAfter(op, host_id, r) ==
    [r.a EXCEPT !.last = [op |-> op, host_id |-> host_id, ret |-> r.ret,
                          hosts_before |-> app.hosts,
                          current_before |-> app.current_host_id]]

AddHost ==
    /\ \E host_id \in AppIds, filled \in BOOLEAN, saved \in BOOLEAN,
          saved_ui \in BOOLEAN :
          app' = AppAfter("add_host", host_id,
                          add_host(app, host_id, filled, saved, saved_ui))
    /\ UNCHANGED <<pagVars, srvVars, unitVars, clientVars, dashVars, term>>

UpdateHost ==
    /\ \E host_id \in AppIds, saved \in BOOLEAN :
          app' = AppAfter("update_host", host_id,
                          update_host(app, host_id, saved))
    /\ UNCHANGED <<pagVars, srvVars, unitVars, clientVars, dashVars, term>>

RemoveHost ==
    /\ \E host_id \in AppIds, saved \in BOOLEAN, saved_ui \in BOOLEAN :
          app' = AppAfter("remove_host", host_id,
                          remove_host(app, host_id, saved, saved_ui))
    /\ UNCHANGED <<pagVars, srvVars, unitVars, clientVars, dashVars, term>>

SetCurrentHost ==
    /\ \E host_id \in AppIds, saved_ui \in BOOLEAN :
          app' = AppAfter("set_current_host", host_id,
                          set_current_host(app, host_id, saved_ui))
    /\ UNCHANGED <<pagVars, srvVars, unitVars, clientVars, dashVars, term>>

AppNext == AddHost \/ UpdateHost \/ RemoveHost \/ SetCurrentHost

SpecApp == InitPag /\ [][AppNext]_vars

-----------------------------------------------------------------------------
(***************************************************************************)
(*   TOGGLE: the SPACE key of the list view (terminal.py 1202-1257) sends  *)
(*   a start, stop, enable or disable request through the host's          *)
(*   controller; the server's route handles it; the handler then tests the *)
(*   reply and updates the cached flag.  The UI thread blocks meanwhile.   *)
(***************************************************************************)

ToggleRoutes == {"start", "stop", "enable", "disable"}
\* The flag a route toggles, and the value the handler read before sending.
ToggleKey(route) == IF route \in {"start", "stop"} THEN "running" ELSE "enabled"
ToggleWas(route) == route \in {"stop", "disable"}

\* jsonify(body) as the client's response.json() gives it back.
Jsonify(body) ==
    JDict([k \in DOMAIN body |->
             IF k \in {"log_matched", "is_active"} THEN JBool(body[k])
             ELSE JStr(body[k])])

\* The request's condition as _make_request sees the response's status.
NetOf(code) ==
    CASE code = 200 -> "ok" [] code = 404 -> "http404" [] code = 500 -> "http500"

\* A load has filled the tables: the server's services, all running or not,
\* all enabled or not.
ToggleLoad ==
    /\ pc = "idle"
    /\ \E b_run \in BOOLEAN, b_boot \in BOOLEAN :
          LET names == DOMAIN services_config
              order == IF "web" \in names THEN <<"web", "db">> ELSE <<"db">>
          IN  /\ all_services' = (ActiveHost :> JList(order))
              /\ all_statuses' =
                    [p \in {ActiveHost} \X names |->
                        [running |-> JBool(b_run), enabled |-> JBool(b_boot),
                         metadata |-> JDict(EmptyDict),
                         resources |-> JDict(EmptyDict)]]
    /\ client_call' = NoClientCall
    /\ UNCHANGED <<reach, self_reach, active, should_refresh, refresh_thread,
                   w_pc, since, m_pc, join_wait, stop_cycles, load>>
    /\ UNCHANGED <<pagVars, srvVars, unitVars, uiVars>>

\* SPACE on a row, column State or Boot: the handler reads the cached flag,
\* picks the action and sends the request.
ToggleSend ==
    /\ pc = "idle"
    /\ \E p \in get_combined_services, col \in {"running", "enabled"} :
          LET status == manager_get_service_status(p[1], p[2])
              flag == PyGet(JDict(status), col, JBool(FALSE)).v
              action == IF col = "running"
                        THEN (IF flag THEN "stop" ELSE "start")
                        ELSE (IF flag THEN "disable" ELSE "enable")
          IN  /\ req' = [route |-> action, name |-> p[2]]
              /\ client_call' = [call |-> "toggle", net |-> "ok",
                                 out |-> Ret(JNone), pair |-> p,
                                 sent |-> TRUE, report |-> "none",
                                 before |-> flag, after |-> flag]
    /\ pc' = "route"
    /\ UNCHANGED <<services_config, status_probe, is_active_stdout, cmds,
                   pre_status, now, wait, started, is_active, resp>>
    /\ UNCHANGED <<pagVars, unitVars, dashVars, uiVars>>

\* if result.get('success', False): flip the cached flag and report success,
\* else report a failure; an exception of the request is reported as error.
toggle_result(result, entry, key, was) ==
    IF result.raised THEN [entry |-> entry, report |-> "error"]
    ELSE IF PyBool(PyGet(result.value, "success", JBool(FALSE)))
    THEN [entry |-> Put(entry, key, JBool(~was)), report |-> "success"]
    ELSE [entry |-> entry, report |-> "failed"]

\* The response arrives and the handler finishes; the server's handler is
\* done as well.
ToggleReturn ==
    /\ pc = "responded"
    /\ client_call.call = "toggle" /\ client_call.report = "none"
    /\ LET p == client_call.pair
           key == ToggleKey(req.route)
           result == _make_request(NetOf(resp.code), Jsonify(resp.body))
           o == toggle_result(result, all_statuses[p], key, ToggleWas(req.route))
       IN  /\ all_statuses' = [all_statuses EXCEPT ![p] = o.entry]
           /\ client_call' = [client_call EXCEPT
                                 !.net = NetOf(resp.code),
                                 !.out = result,
                                 !.report = o.report,
                                 !.after = o.entry[key].v]
    /\ pc' = "answered"
    /\ UNCHANGED <<services_config, status_probe, is_active_stdout, req, cmds,
                   pre_status, now, wait, started, is_active, resp>>
    /\ UNCHANGED <<reach, self_reach, all_services, active, should_refresh,
                   refresh_thread, w_pc, since, m_pc, join_wait, stop_cycles,
                   load>>
    /\ UNCHANGED <<pagVars, unitVars, uiVars>>

\* The next key is awaited; the request's handler and its locals are gone.
ToggleDone ==
    /\ pc = "answered"
    /\ pc' = "idle"
    /\ req' = NoReq
    /\ cmds' = {}
    /\ pre_status' = NoStatus
    /\ status_probe' = NoProbe
    /\ is_active_stdout' = Empty
    /\ now' = 0
    /\ wait' = NoWait
    /\ started' = FALSE
    /\ is_active' = FALSE
    /\ resp' = NoResp
    /\ UNCHANGED services_config
    /\ UNCHANGED <<pagVars, extVars>>

ToggleNext ==
    \/ ToggleLoad \/ ToggleSend \/ ToggleReturn \/ ToggleDone
    \/ PreStatus
    \/ StopDecide \/ StartDecide \/ EnableDecide \/ DisableDecide
    \/ WaitCheck \/ WaitProbe \/ WaitSleep
    \/ FinalProbe \/ PostStatus

\* The dashboard's toggle against the server's routes.
SpecToggle == Init /\ [][ToggleNext]_vars

-----------------------------------------------------------------------------
(***************************************************************************)
(*                      PROPERTIES: log paginator                          *)
(***************************************************************************)

PagDone == pag_pc = "done"
PagReturned == PagDone /\ ~pag_result.raised

\* The stream lines of page p for page size k: (p-1)*k+1 .. min(p*k, N).
PageWindow(p, k, n) == {i \in 1..n : (p - 1) * k + 1 <= i /\ i <= Min(p * k, n)}

\* The non-blank lines among the stream lines lo..hi, in order.
NonBlank(stream, lo, hi) ==
    SelectSeq(SubSeq(stream, lo, hi), LAMBDA l : l.kind # "blank")

RawLines(logs) == [i \in 1..Len(logs) |-> logs[i].raw]

\* C1: for every per_page >= 1 and total_logs >= 0 the total_pages of the
\* result is max(1, ceil(total_logs / per_page)): the least n >= 1 with
\* n * per_page >= total_logs.
Thm_C1 ==
    PagReturned =>
        LET pg == pag_result.pagination
        IN  /\ pg.per_page >= 1
            /\ pg.total_logs >= 0
            /\ pg.total_pages >= 1
            /\ pg.total_pages * pg.per_page >= pg.total_logs
            /\ pg.total_pages > 1 => (pg.total_pages - 1) * pg.per_page < pg.total_logs

\* A call that counted 3 lines for pages of 2: two pages.
Wit_C1 ==
    /\ PagReturned
    /\ pag_result.pagination.total_logs = 3
    /\ pag_result.pagination.per_page = 2
    /\ pag_result.pagination.total_pages = 2

\* C2: in every result, the one returned after an exception included,
\* has_prev = (page > 1) and has_next = (page < total_pages).
Cex_C2 ==
    PagReturned =>
        LET pg == pag_result.pagination
        IN  /\ pg.has_prev = (pg.page > 1)
            /\ pg.has_next = (pg.page < pg.total_pages)

\* C3: on an unchanging stream of N lines, page p of size k holds, in order,
\* the non-blank lines among stream lines (p-1)*k+1 .. min(p*k, N); so
\* log_count <= k, a page beyond total_pages is empty, and every non-blank
\* line lies on exactly one of the pages 1..total_pages.
Cex_C3 ==
    (PagReturned /\ pag_call.countOut = "ok" /\ pag_call.sliceOut = "ok") =>
        LET pg == pag_result.pagination
            stream == FullStream(journal)
            n == Len(stream)
        IN  /\ RawLines(pag_result.logs)
                  = NonBlank(stream, (pg.page - 1) * pg.per_page + 1,
                             Min(pg.page * pg.per_page, n))
            /\ pag_result.log_count <= pg.per_page
            /\ pg.page > pg.total_pages => pag_result.logs = <<>>
            /\ \A i \in 1..n :
                  stream[i].kind # "blank" =>
                      Cardinality({q \in 1..pg.total_pages :
                                      i \in PageWindow(q, pg.per_page, n)}) = 1

\* C4 as stated: an exception in the count step or in the slice step gives a
\* zero result: no raise, logs = [], log_count = 0, total_logs = 0, error set.
Cex_C4 ==
    (PagDone /\ (pag_call.countOut = "raise" \/ pag_call.sliceOut = "raise")) =>
        /\ ~pag_result.raised
        /\ pag_result.logs = <<>>
        /\ pag_result.log_count = 0
        /\ pag_result.pagination.total_logs = 0
        /\ pag_result.error \notin {None, ""}

\* C4 as amended: an exception in the slice step gives the zero result with
\* error set to the exception's text; an exception in the count step is
\* absorbed by count_total_journal_entries (total_logs = 0, total_pages = 1),
\* the slice still runs and its entries and its stderr are returned.  Neither
\* raises.
Thm_C4 ==
    /\ (PagDone /\ pag_call.sliceOut = "raise") =>
          /\ ~pag_result.raised
          /\ pag_result.logs = <<>>
          /\ pag_result.log_count = 0
          /\ pag_result.pagination.total_logs = 0
          /\ pag_result.error = "str(e)"
    /\ (PagDone /\ pag_call.countOut = "raise" /\ pag_call.sliceOut # "raise") =>
          /\ ~pag_result.raised
          /\ pag_result.pagination.total_logs = 0
          /\ pag_result.pagination.total_pages = 1
          /\ LET pg == pag_result.pagination
                 n == Len(journal)
             IN  RawLines(pag_result.logs)
                   = IF pag_call.sliceOut = "ok"
                     THEN NonBlank(journal, (pg.page - 1) * pg.per_page + 1,
                                   Min(pg.page * pg.per_page, n))
                     ELSE <<>>
          /\ pag_result.log_count = Len(pag_result.logs)
          /\ pag_result.error = IF pag_call.stderr = "" THEN None ELSE pag_call.stderr

\* The count raised, the slice ran: entries are returned and error is None.
Wit_C4 ==
    /\ PagDone
    /\ pag_call.countOut = "raise"
    /\ pag_call.sliceOut = "ok"
    /\ ~pag_result.raised
    /\ pag_result.log_count > 0
    /\ pag_result.error = None

-----------------------------------------------------------------------------
(***************************************************************************)
(*                 PROPERTIES: lifecycle waiters and routes                *)
(***************************************************************************)

InWait == pc \in {"wait_check", "wait_probe", "wait_sleep"}
WaitReturned == wait.kind # "none" /\ wait.returned_at # NoNum
Elapsed == wait.returned_at - wait.start_time

\* The probe output is the desired word, with nothing but white space around.
ExactlyDesired(out, desired) ==
    \E a, b \in 0..Len(out) :
        /\ a + Len(desired) + b = Len(out)
        /\ \A i \in 1..Len(out) :
              IF i <= a \/ i > a + Len(desired) THEN out[i] \in Whitespace
              ELSE out[i] = desired[i - a]
        /\ desired # Empty

\* C5: _wait_for_service_state returns True exactly when a probe printed the
\* desired state (stripped, exact match), at the first such probe: while it
\* is still looping no probe has matched; with timeout <= 0 it returns False
\* without probing.
Thm_C5 ==
    wait.kind = "state" =>
        /\ WaitReturned =>
              (started <=> (wait.probes = 1 /\ ExactlyDesired(wait.last, wait.desired)))
        /\ (InWait /\ wait.probes = 1) => ~ExactlyDesired(wait.last, wait.desired)
        /\ wait.timeout <= 0 => (wait.probes = 0 /\ (WaitReturned => ~started))

\* A state waiter that returned True after at least one probe that did not
\* match.
Wit_C5 ==
    /\ wait.kind = "state"
    /\ WaitReturned /\ started
    /\ Elapsed >= TicksPerSec
    /\ wait.last = wait.desired \o NL

\* C6: a waiter whose probes never match returns False no earlier than the
\* timeout after the call and, when its probes take no time, no later than
\* one 1-second poll interval after it; and every waiter returns.
WaitTiming ==
    (WaitReturned /\ ~started) =>
        /\ Elapsed >= wait.timeout
        /\ ~wait.slow => Elapsed <= Max(wait.timeout, 0) + TicksPerSec
Thm_C6 == []WaitTiming /\ (InWait ~> ~InWait)

\* A waiter that gave up strictly after its timeout, within the poll interval.
Wit_C6 ==
    /\ WaitReturned /\ ~started /\ ~wait.slow
    /\ wait.probes = 1
    /\ wait.timeout > 0
    /\ Elapsed > wait.timeout

\* C7: after a start or restart command that exited zero the route answers
\* with success if and only if the wait returned True or the final is-active
\* probe printed exactly "active"; otherwise it answers 500 (timeout); and
\* with no start_string configured the wait is the is-active polling wait.
StartOrRestartDone ==
    pc = "responded" /\ req.route \in {"start", "restart"} /\ wait.kind # "none"
Thm_C7 ==
    StartOrRestartDone =>
        LET final_active == ExactlyDesired(is_active_stdout, c_active)
            configured == Get(services_config[req.name], "start_string", None)
        IN  /\ resp.code = 200 <=> (started \/ final_active)
            /\ (~started /\ ~final_active) =>
                  (resp.code = 500
                   /\ resp.body = [description |-> "Timeout waiting for service to start"])
            /\ configured \in {None, ""} => (wait.kind = "state" /\ wait.desired = c_active)

\* The wait timed out, the final probe said active: success.
Wit_C7 ==
    /\ StartOrRestartDone
    /\ ~started
    /\ is_active_stdout = c_active \o NL
    /\ resp.code = 200

\* C8: a request naming a service that is not configured is answered 404 and
\* runs no command; every command the server runs targets a configured
\* service.
Thm_C8 ==
    /\ \A c \in cmds : c.unit \in DOMAIN services_config
    /\ req.name \notin DOMAIN services_config => cmds = {}
    /\ (pc = "responded" /\ req.name \notin DOMAIN services_config) => resp.code = 404

\* A stop request for an unknown service, answered 404.
Wit_C8 ==
    /\ pc = "responded"
    /\ req.route = "stop"
    /\ req.name \notin DOMAIN services_config
    /\ resp.code = 404
    /\ cmds = {}

\* The status record a get_service_status call just returned: the body of the
\* status route's response, or pre_status at the route's first decision.
HasStatus ==
    \/ pc = "responded" /\ req.route = "status" /\ resp.code = 200
    \/ pc = "decide"
LastStatus == IF pc = "decide" THEN pre_status ELSE resp.body

ProbeNotFound == status_probe.loaded_check = c_LoadState \o c_not_found \o NL
ProbeLoaded == status_probe.loaded_check = c_LoadState \o c_loaded \o NL

\* C9: when the LoadState probe says not-found the result is the explicit
\* error "Service <name> not found", with no running / enabled field, whatever
\* the status command printed or returned; an installed, stopped unit gives a
\* record with running = false and no error.
Thm_C9 ==
    HasStatus =>
        /\ ProbeNotFound =>
              /\ LastStatus = [error |-> <<"Service not found", req.name>>]
              /\ {"running", "enabled"} \cap DOMAIN LastStatus = {}
        /\ (ProbeLoaded /\ (status_probe.code = 3 \/ status_probe.stdout.Active = A_dead)) =>
              /\ "error" \notin DOMAIN LastStatus
              /\ "running" \in DOMAIN LastStatus
              /\ LastStatus["running"] = FALSE

\* not-found although `systemctl status` exited 0 with a running unit's text.
Wit_C9 ==
    /\ pc = "responded" /\ req.route = "status"
    /\ ProbeNotFound
    /\ status_probe.code = 0
    /\ status_probe.stdout.Active = A_running
    /\ "error" \in DOMAIN resp.body

\* C10: when the unit exists and `systemctl status` exits non-zero the result
\* is, whatever the text, the minimal record: running = false, active_raw =
\* "inactive", enabled and boot_status from the is-enabled probe, details
\* empty.
Thm_C10 ==
    (HasStatus /\ ~ProbeNotFound /\ status_probe.code # 0) =>
        /\ DOMAIN LastStatus
              = {"service", "running", "enabled", "boot_status", "active_raw", "details"}
        /\ LastStatus["service"] = req.name
        /\ LastStatus["running"] = FALSE
        /\ LastStatus["active_raw"] = c_inactive
        /\ LastStatus["enabled"] = (status_probe.enabled_check = c_enabled \o NL)
        /\ \/ LastStatus["boot_status"] \o NL = status_probe.enabled_check
           \/ LastStatus["boot_status"] = Empty /\ status_probe.enabled_check = Empty
        /\ DOMAIN LastStatus["details"] = {}

\* Exit code 3 with a text that says running and names a PID: still minimal.
Wit_C10 ==
    /\ pc = "responded" /\ req.route = "status"
    /\ ~ProbeNotFound
    /\ status_probe.code = 3
    /\ status_probe.stdout.Active = A_running
    /\ status_probe.stdout.MainPID # NoNum
    /\ status_probe.enabled_check = c_enabled \o NL
    /\ resp.body["running"] = FALSE
    /\ resp.body["enabled"] = TRUE

\* The boot states a unit can be in.
BootStates == {c_enabled, c_disabled, c_indirect, c_static}

\* The status command succeeded and its Loaded: line names the boot state b
\* that the is-enabled probe printed: both derivations are available.
BothPaths(b) ==
    /\ HasStatus /\ ~ProbeNotFound
    /\ status_probe.code = 0
    /\ status_probe.stdout.Loaded = LoadedLine(b)
    /\ status_probe.enabled_check = b \o NL

\* C11: for every boot state (enabled, disabled, indirect, static) the
\* enabled flag and boot_status derived from the Loaded: line, which the
\* record carries, equal the ones derived from the is-enabled probe.
Cex_C11 ==
    \A b \in BootStates :
        BothPaths(b) =>
            /\ LastStatus["enabled"]
                  = Contains(Lower(status_probe.enabled_check), c_enabled)
            /\ LastStatus["boot_status"] = Strip(status_probe.enabled_check)

\* The status command exited zero for an installed unit: its text was parsed.
StatusParsed == HasStatus /\ ~ProbeNotFound /\ status_probe.code = 0

\* The Active: line is 'active (running) since Mon 2024-01-01 10:00:00 UTC;
\* 2h 15min ago'.
ActiveScenario == status_probe.stdout.Active = A_running

\* The text has no Active: line, or its Active: line has no 'since' part.
NoSincePart ==
    \/ status_probe.stdout.Active = NoLine
    \/ ~Contains(status_probe.stdout.Active, c_since)

\* C21 as stated: for the Active: line of the scenario the record has
\* running = True, started_at = "Mon 2024-01-01 10:00:00 UTC" and uptime =
\* "2h 15min " with the trailing space; without an Active: line or without a
\* 'since ...; ... ago' part started_at and uptime are absent.
Cex_C21 ==
    StatusParsed =>
        /\ ActiveScenario =>
              /\ Get(LastStatus, "running", FALSE) = TRUE
              /\ Get(LastStatus, "started_at", <<>>) = TS
              /\ Get(LastStatus, "uptime", <<>>) = DUR \o SP
        /\ NoSincePart => {"started_at", "uptime"} \cap DOMAIN LastStatus = {}

\* C21, amended: as above, with uptime = "2h 15min", the duration stripped of
\* the blanks around it.
Thm_C21 ==
    StatusParsed =>
        /\ ActiveScenario =>
              /\ Get(LastStatus, "running", FALSE) = TRUE
              /\ Get(LastStatus, "started_at", <<>>) = TS
              /\ Get(LastStatus, "uptime", <<>>) = DUR
        /\ NoSincePart => {"started_at", "uptime"} \cap DOMAIN LastStatus = {}

\* The status route answered for the scenario's text.
Wit_C21 ==
    /\ pc = "responded" /\ req.route = "status"
    /\ StatusParsed
    /\ ActiveScenario
    /\ resp.body["uptime"] = DUR
    /\ Len(resp.body["uptime"]) = 3

\* The stop route answered a request for a configured service.
StopDone ==
    pc = "responded" /\ req.route = "stop" /\ req.name \in DOMAIN services_config
StopIssued == Cmd("stop", req.name) \in cmds

\* C22: the stop route answers with success only when the pre-check found
\* the service not running, and then no stop command was issued, or when the
\* stop command exited zero and an is-active probe begun within stop_timeout
\* printed exactly "inactive"; a stop command that exited non-zero, and a
\* wait that elapsed, are answered 500.
Thm_C22 ==
    StopDone =>
        /\ resp.code = 200 =>
              \/ /\ ~StopIssued
                 /\ ~Get(pre_status, "running", FALSE)
                 /\ wait.kind = "none"
              \/ /\ StopIssued
                 /\ wait.kind = "state"
                 /\ wait.timeout = TimeoutOf(req.name, "stop_timeout")
                 /\ WaitReturned /\ started
                 /\ ExactlyDesired(wait.last, c_inactive)
                 /\ Elapsed < wait.timeout + MaxProbeTicks
                 /\ ~wait.slow => Elapsed < wait.timeout
        /\ (StopIssued /\ wait.kind = "none") => resp.code = 500
        /\ (WaitReturned /\ ~started) => resp.code = 500
        /\ resp.code \in {200, 500}

\* A stop answered 200 after the unit took more than a second to stop.
Wit_C22 ==
    /\ StopDone
    /\ StopIssued
    /\ resp.code = 200
    /\ Elapsed >= TicksPerSec
    /\ wait.last = c_inactive \o NL

\* The start route answered "<name> is already running."
AlreadyRunning ==
    /\ pc = "responded" /\ req.route = "start"
    /\ req.name \in DOMAIN services_config
    /\ resp.code = 200
    /\ DOMAIN resp.body = {"message"}
    /\ resp.body.message = "is already running."

\* C24: the start route answers "<name> is already running", issuing no
\* start command, only when the status record it read says running = true;
\* for a unit systemd reports as not-found, and for a record that says
\* running = false, it never gives that answer.
Cex_C24 ==
    AlreadyRunning =>
        /\ Cmd("start", req.name) \notin cmds
        /\ "running" \in DOMAIN pre_status
        /\ Get(pre_status, "running", FALSE) = TRUE
        /\ ~ProbeNotFound

-----------------------------------------------------------------------------
(***************************************************************************)
(*                 PROPERTIES: unit-file and property parsers              *)
(***************************************************************************)

ConfigParsed == unit_pc = "parsed" /\ unit_result.fn = "config" /\ ~unit_result.raised

\* What line i of the unit file is, read on its own.
IsHeaderAt(i) ==
    LET l == Strip(unit_text[i])
    IN  l # <<>> /\ l[1] # "#" /\ section_match(l) # NoLine
\* The section line i stands in: the name in the last header above it.
SectionAt(i) ==
    LET above == {j \in 1..(i - 1) : IsHeaderAt(j)}
    IN  IF above = {} THEN NoLine
        ELSE section_match(Strip(unit_text[CHOOSE j \in above : \A x \in above : x <= j]))
\* Line i is a key=value line under some section header.
IsEntryAt(i) ==
    LET l == Strip(unit_text[i])
    IN  /\ l # <<>> /\ l[1] # "#"
        /\ ~IsHeaderAt(i)
        /\ \E x \in 1..Len(l) : l[x] = "="
        /\ SectionAt(i) # NoLine
KeyAt(i) == Strip(SplitEq(Strip(unit_text[i]))[1])
ValueAt(i) == Unescape(Unquote(Strip(SplitEq(Strip(unit_text[i]))[2])))

\* The Environment= lines of the [Service] section, in file order.
EnvironmentLines ==
    SelectSeq([i \in 1..Len(unit_text) |-> i],
              LAMBDA i : IsEntryAt(i) /\ SectionAt(i) = k_Service
                         /\ KeyAt(i) = k_Environment)

\* C12: config.Service.Environment is a list with one element per
\* Environment= line of the [Service] section, in file order (and is absent
\* when there is none); every other key of a section holds, as a string, the
\* value of its last occurrence in that section.
Thm_C12 ==
    ConfigParsed =>
        LET service == unit_result.config[k_Service]
        IN  /\ (k_Environment \in DOMAIN service) <=> (EnvironmentLines # <<>>)
            /\ k_Environment \in DOMAIN service =>
                  /\ DOMAIN service[k_Environment] = {"list"}
                  /\ service[k_Environment].list
                        = [n \in 1..Len(EnvironmentLines) |-> ValueAt(EnvironmentLines[n])]
            /\ \A sec \in DOMAIN unit_result.config :
                  \A key \in DOMAIN unit_result.config[sec] :
                      (sec # k_Service \/ key # k_Environment) =>
                          LET occ == {i \in 1..Len(unit_text) :
                                         IsEntryAt(i) /\ SectionAt(i) = sec /\ KeyAt(i) = key}
                          IN  /\ occ # {}
                              /\ unit_result.config[sec][key]
                                    = PyStr(ValueAt(CHOOSE i \in occ : \A x \in occ : x <= i))

\* One Environment=FOO=bar line gives ["FOO=bar"]; ExecStart, given twice,
\* keeps its second value.
Wit_C12 ==
    /\ ConfigParsed
    /\ unit_text = << <<"[", "Service", "]">>,
                      <<"ExecStart", "=", "abc">>,
                      <<"Environment", "=", "FOO", "=", "bar">>,
                      <<" ", "ExecStart", " ", "=", " ", "bar", " ">> >>
    /\ unit_result.config[k_Service][k_Environment] = PyList(<< <<"FOO", "=", "bar">> >>)
    /\ unit_result.config[k_Service][<<"ExecStart">>] = PyStr(<<"bar">>)

\* The X-Metadata-<name>=<value> lines that stand under a section header.
MetadataLines ==
    {i \in 1..Len(unit_text) : IsEntryAt(i) /\ StartsWith(KeyAt(i), <<XMETA>>)}

\* C13: no key beginning with X-Metadata- is in config.Unit, config.Service
\* or config.Install; every X-Metadata-<name>=<value> line under a section
\* header puts <name> (the key without the prefix) into metadata, and nothing
\* else does; the value stored is the line's value without its one layer of
\* surrounding double quotes (with \" read as ", and of the last line when
\* <name> is given more than once).
Thm_C13 ==
    ConfigParsed =>
        /\ \A sec \in DOMAIN unit_result.config :
              \A key \in DOMAIN unit_result.config[sec] : ~StartsWith(key, <<XMETA>>)
        /\ DOMAIN unit_result.metadata = {Tail(KeyAt(i)) : i \in MetadataLines}
        /\ \A i \in MetadataLines :
              LET name == Tail(KeyAt(i))
                  raw == Strip(SplitEq(Strip(unit_text[i]))[2])
                  last == \A j \in MetadataLines : Tail(KeyAt(j)) = name => j <= i
              IN  last =>
                    /\ unit_result.metadata[name] = ValueAt(i)
                    /\ BSLASH \notin {raw[x] : x \in 1..Len(raw)} =>
                          unit_result.metadata[name] = Unquote(raw)

\* X-Metadata-VM_hostname="abc" gives metadata {VM_hostname: abc} and no
\* section entry.
Wit_C13 ==
    /\ ConfigParsed
    /\ unit_text = << <<"[", "Unit", "]">>,
                      <<XMETA, "VM_hostname", "=", QUOTE, "abc", QUOTE>> >>
    /\ unit_result.metadata = (<<"VM_hostname">> :> <<"abc">>)
    /\ \A sec \in DOMAIN unit_result.config : DOMAIN unit_result.config[sec] = {}

\* /unit_info ran all its commands successfully (the handler may still have
\* raised), and it returned its full result.
InfoRan ==
    /\ unit_pc = "parsed" /\ unit_result.fn = "unit_info"
    /\ ~UnitNotFound(unit_result.probe.loaded_check)
    /\ unit_result.probe.show_code = 0
InfoParsed == InfoRan /\ ~unit_result.raised

\* The table entries whose prefix starts the property name, and among them
\* those with the longest prefix.
MatchingPrefixes(key) ==
    {n \in 1..Len(SectionPrefixes) : StartsWith(key, SectionPrefixes[n].prefix)}
LongestPrefixes(key) ==
    {n \in MatchingPrefixes(key) :
        \A m \in MatchingPrefixes(key) :
            Len(SectionPrefixes[m].prefix) <= Len(SectionPrefixes[n].prefix)}

\* C14: every key of config.Unit / Service / Install is a key of
\* all_properties; a property is in the section of the longest known prefix of
\* its name and in no other; a property matching no known prefix is in no
\* section but in all_properties.
Thm_C14 ==
    InfoParsed =>
        /\ \A sec \in DOMAIN unit_result.config :
              DOMAIN unit_result.config[sec] \subseteq DOMAIN unit_result.all_properties
        /\ \A key \in DOMAIN unit_result.all_properties :
              \A sec \in DOMAIN unit_result.config :
                  key \in DOMAIN unit_result.config[sec]
                      <=> (\E n \in LongestPrefixes(key) : SectionPrefixes[n].section = sec)
        /\ \A key \in DOMAIN unit_result.all_properties :
              Cardinality({sec \in DOMAIN unit_result.config :
                              key \in DOMAIN unit_result.config[sec]}) <= 1

\* RestartUSec is filed under Service (prefix Restart); NRestarts, which no
\* prefix starts, is in all_properties only.
Wit_C14 ==
    /\ InfoParsed
    /\ \E k \in DOMAIN unit_result.config[k_Service] :
          Len(k) > 7 /\ SubSeq(k, 1, 7) = <<"R", "e", "s", "t", "a", "r", "t">>
    /\ \E k \in DOMAIN unit_result.all_properties :
          /\ k[1] = "N"
          /\ \A sec \in DOMAIN unit_result.config : k \notin DOMAIN unit_result.config[sec]

\* Line i is an X-Metadata-<path>=<value> line; its path, split at "_".
IsPathLine(i) ==
    LET l == Strip(unit_text[i])
    IN  l # <<>> /\ Head(l) = XMETA /\ \E x \in 2..Len(l) : l[x] = "="
PathOf(i) == SplitUnderscore(Lower(SplitEq(Tail(Strip(unit_text[i])))[1]))
PathValueOf(i) == Strip(RemoveQuotes(SplitEq(Tail(Strip(unit_text[i])))[2]))

\* The value the nested metadata holds at a key path; NoLine when none.
RECURSIVE Lookup(_, _)
Lookup(d, keys) ==
    IF Head(keys) \notin DOMAIN d THEN Leaf(NoLine)
    ELSE IF Len(keys) = 1 THEN d[Head(keys)]
    ELSE IF IsLeaf(d[Head(keys)]) THEN Leaf(NoLine)
    ELSE Lookup(d[Head(keys)].map, Tail(keys))

\* The last line of the file sets a path that runs through a key which an
\* earlier line set to a leaf string.
LeafCollision ==
    LET j == Len(unit_text)
    IN  /\ j >= 2 /\ IsPathLine(j)
        /\ \E i \in 1..(j - 1) :
              /\ IsPathLine(i)
              /\ Len(PathOf(i)) < Len(PathOf(j))
              /\ SubSeq(PathOf(j), 1, Len(PathOf(i))) = PathOf(i)
              /\ \A x \in (i + 1)..(j - 1) : ~IsPathLine(x)

\* C15: when a later key path runs through a key that holds a leaf string,
\* parsing completes without error and the leaf has become a map holding the
\* new path.
Cex_C15 ==
    (InfoRan /\ unit_result.probe.cat_code = 0 /\ LeafCollision) =>
        /\ ~unit_result.raised
        /\ Lookup(unit_result.metadata, PathOf(Len(unit_text)))
              = Leaf(PathValueOf(Len(unit_text)))


\* get_service_config ran on the text a `systemctl cat` that exited zero
\* printed.
ConfigRan == unit_pc = "parsed" /\ unit_result.fn = "config"

\* No line of the file is a section header.
NoHeader == \A i \in 1..Len(unit_text) : ~IsHeaderAt(i)

\* C25: for every unit-file text get_service_config returns, without
\* raising, a config with exactly the keys Unit, Service and Install, also
\* when key=value lines stand under another section header such as [Socket];
\* key=value lines before any section header are ignored.
Cex_C25 ==
    ConfigRan =>
        /\ ~unit_result.raised
        /\ DOMAIN unit_result.config = {k_Unit, k_Service, k_Install}
        /\ NoHeader =>
              /\ unit_result.config = EmptySections
              /\ unit_result.metadata = EmptyDict

-----------------------------------------------------------------------------
(***************************************************************************)
(*                  PROPERTIES: client and dashboard                       *)
(***************************************************************************)

\* The request of the last client call met no server: the connection failed
\* or the request timed out.
NoServer == client_call.net \in {"unreachable", "timeout"}

\* C18: when the server cannot be reached or the request times out,
\* _make_request returns a dict with the keys error and message, and every
\* public client call built on it (list, status, control, logs, health)
\* returns a value instead of raising.
Cex_C18 ==
    /\ \A net \in {"unreachable", "timeout"} :
          LET r == _make_request(net, JNone)
          IN  ~r.raised /\ r.value.t = "dict"
              /\ {"error", "message"} \subseteq DOMAIN r.value.v
    /\ (NoServer /\ client_call.call # "none") => ~client_call.out.raised


\* A restart_services or stop_all_services call returned its dictionary.
BulkReturned ==
    /\ client_call.call \in {"restart_services", "stop_all_services"}
    /\ ~client_call.out.raised
BulkSuccess(s) == client_call.out.value.v[s].v["success"].v

\* C23: restart_services and stop_all_services return a dictionary with one
\* entry per service; an entry has success = True only if the server carried
\* the action out (answered the request with 200), an entry whose request
\* met a server error, a connection failure or a timeout has success =
\* False, and stop_all_services sends stop requests only for names the
\* server listed.
Cex_C23 ==
    BulkReturned =>
        /\ DOMAIN client_call.out.value.v = DOMAIN client_call.sent
        /\ \A s \in DOMAIN client_call.sent :
              /\ BulkSuccess(s) => client_call.sent[s] = "ok"
              /\ client_call.sent[s] \in {"http500", "unreachable", "timeout"}
                    => ~BulkSuccess(s)
        /\ client_call.call = "stop_all_services"
              => DOMAIN client_call.sent \subseteq client_call.listed

\* A switch_host call has returned.
SwitchReturned == term.last.h # "none"

\* C26: after switch_host(h) returns, the active host id of the
\* configuration is the host of current_manager; it returns True only if
\* that host is h; when it returns False the active host id and
\* current_manager are what they were before the call.
Cex_C26 ==
    SwitchReturned =>
        /\ term.active_host = term.current_manager
        /\ term.last.ret =>
              (term.active_host = term.last.h /\ term.current_manager = term.last.h)
        /\ ~term.last.ret =>
              /\ term.active_host = term.last.active_before
              /\ term.current_manager = term.last.manager_before

\* The worker thread of host h's manager was started and its flag is set.
WorkerPolling(h) ==
    term.managers[h].thread /\ term.managers[h].should_refresh

\* C29: when main_loop has exited, every refresh worker that was started has
\* had its should_refresh flag cleared; while main_loop runs, current_manager
\* has a running refresh worker, also after successful host switches.
Cex_C29 ==
    /\ term.pc = "exited" => \A h \in TermHosts : ~WorkerPolling(h)
    /\ term.pc = "loop" => WorkerPolling(term.current_manager)

\* The UI thread is in main_loop between two keys: it draws the list and
\* handles a toggle from what the tables hold now.
UIReads == m_pc = "loop"

\* C27: whenever the UI thread reads, whatever the refresh worker is doing,
\* each (server_id, service) pair get_combined_services returns has an entry
\* in all_statuses, so the status read for a listed service is never the
\* empty default.
Cex_C27 ==
    UIReads =>
        \A p \in get_combined_services :
            /\ p \in DOMAIN all_statuses
            /\ manager_get_service_status(p[1], p[2]) # EmptyDict

\* The toggle handler has finished with the server's response.
ToggleAnswered == pc = "answered" /\ client_call.call = "toggle"

\* The route carried the action out: it answered 200 with its success
\* message.
CarriedOut ==
    /\ resp.code = 200
    /\ resp.body.message \in {"started successfully.", "stopped successfully.",
                              "enabled successfully.", "disabled successfully."}

\* C28: when the server carries out the start, stop, enable or disable a
\* dashboard toggle requested, the dashboard flips the cached flag of that
\* (server, service) and reports success; the cached flag changes only in
\* that case.
Cex_C28 ==
    ToggleAnswered =>
        /\ CarriedOut =>
              /\ client_call.report = "success"
              /\ client_call.after = ~client_call.before
        /\ client_call.after # client_call.before => CarriedOut

\* C30: after any sequence of add_host, update_host, remove_host and
\* set_current_host, current_host_id is the id of a configured host; a
\* remove_host or set_current_host that returned False left the configured
\* hosts and current_host_id unchanged; the local default host is never
\* removed.
Cex_C30 ==
    /\ app.current_host_id \in HostIds(app)
    /\ (app.last.op \in {"remove_host", "set_current_host"} /\ ~app.last.ret) =>
          /\ app.hosts = app.last.hosts_before
          /\ app.current_host_id = app.last.current_before
    /\ hoststr \in HostIds(app)

\* The list x is the empty list [].
IsEmptyList(x) == x.t = "list" /\ Len(x.v) = 0

\* C16: once a failure has marked a host unreachable, every later automatic
\* refresh cycle makes no network call to that host and records an empty
\* service list for it; this holds for every configured host, the active
\* one included.
Cex_C16 ==
    LET f == load["worker"]
    IN  f.kind = "auto" =>
          \A h \in f.marked :
             /\ h \notin f.called
             /\ (f.last.host = h => IsEmptyList(f.last.services))

\* C17: a manual refresh (the R key) attempts network calls again to a host
\* that was marked unreachable before it, so that a host which has become
\* reachable is shown with its services after the manual refresh.
Cex_C17 ==
    LET f == load["main"]
    IN  f.kind = "manual" =>
          \A h \in f.marked :
             f.last.host = h =>
                /\ ~f.last.skipped
                /\ h \in f.called

\* C19: in a refresh cycle, a failure of any call to one host (an exception
\* or an error payload from the list, status, metadata or resource calls)
\* never raises out of the cycle and leaves that host with an empty service
\* list, the other hosts' lists and status entries being what they would be
\* without the failure.
Cex_C19 ==
    \A t \in Threads :
       LET l == load[t].last
       IN  (l.host # "none" /\ l.failed) => IsEmptyList(l.services)

\* stop_refresh_thread has been called: the flag is cleared.
StopCalled == m_pc \in {"join", "stopped"}

\* C20: after stop_refresh_thread is called the worker ends at most one
\* more refresh cycle (the one past its flag check or in progress) and then
\* terminates, and stop_refresh_thread returns after at most its bounded
\* join, also while that cycle is still running.
Thm_C20 ==
    /\ [](stop_cycles <= 1)
    /\ [](StopCalled => join_wait <= JoinTimeout)
    /\ (StopCalled ~> (w_pc = "done"))
    /\ ((m_pc = "join") ~> (m_pc = "stopped"))
    /\ []((w_pc = "done") => [](w_pc = "done"))

\* stop_refresh_thread has returned after the whole join timeout while the
\* worker is inside the one refresh it ends after the flag was cleared.
Wit_C20 ==
    /\ m_pc = "stopped"
    /\ join_wait = JoinTimeout
    /\ w_pc = "loading"
    /\ load["worker"].pos = "host"


=============================================================================
